---- MODULE Spec2Model ----
(***************************************************************************)
(* A model of the @foxglove/ulog reader: the ChunkedReader cursor, the     *)
(* record codec (readRawMessage), the definition parser, the message       *)
(* decoder and the ULog engine (open, #createIndex, readMessages).         *)
(*                                                                         *)
(* The file is a sequence of bytes.  Strings are sequences of character    *)
(* codes (all inputs are ASCII, for which TextDecoder.decode maps one byte *)
(* to one character).  A 64-bit integer is kept as four 16-bit limbs,      *)
(* most significant first, so that every uint64 the code can read from     *)
(* the file has a value in the model.                                      *)
(***************************************************************************)
EXTENDS Integers, Sequences, FiniteSets, TLC

VARIABLES
  file,            \* the bytes of the ByteSource (Filelike)
  recs,            \* the records the file was assembled from (input description)
  chunkSize,       \* the chunkSize the engine constructs its reader with
  reader,          \* ChunkedReader: #fileCursor, #chunk (as a window), #chunkCursor
  pc,              \* where open() stands: "new", "defs", "index", "open", "failed"
  header,          \* ULog.#header
  loc,             \* locals of open(): flagBits, information, parameters, definitions, version, timestamp
  dataEnd,         \* ULog.#dataEnd (-1 = undefined)
  appendedOffsets, \* ULog.#appendedOffsets
  subscriptions,   \* ULog.#subscriptions
  idx,             \* locals of #createIndex: timeIndex, dataCounts, minTimestamp, maxTimestamp, logMessageCount
  timeIndex,       \* ULog.#timeIndex
  dataMessageCounts, \* ULog.#dataMessageCounts
  logMessageCount, \* ULog.#logMessageCount
  dataTimeRange,   \* ULog.#dataTimeRange
  it,              \* the readMessages iterator (generator object)
  probe            \* a caller of findRange or of a ChunkedReader alone: its last call

vars == <<probe, file, recs, chunkSize, reader, pc, header, loc, dataEnd, appendedOffsets,
          subscriptions, idx, timeIndex, dataMessageCounts, logMessageCount,
          dataTimeRange, it>>

(***************************************************************************)
(* Small helpers                                                           *)
(***************************************************************************)
Min(a, b) == IF a < b THEN a ELSE b
Max(a, b) == IF a > b THEN a ELSE b

\* s[a..b) of a sequence, 0-based half-open, clipped to the sequence
Slice(s, a, b) == SubSeq(s, a + 1, Min(b, Len(s)))

RECURSIVE Flatten(_)
Flatten(ss) == IF ss = <<>> THEN <<>> ELSE Head(ss) \o Flatten(Tail(ss))

(***************************************************************************)
(* 64-bit unsigned integers as limbs <<w3, w2, w1, w0>>                    *)
(***************************************************************************)
U64(n) == <<0, 0, 0, n>>

U64FromBytes(b) ==
  << b[8] * 256 + b[7], b[6] * 256 + b[5], b[4] * 256 + b[3], b[2] * 256 + b[1] >>

U64ToBytes(x) ==
  << x[4] % 256, x[4] \div 256, x[3] % 256, x[3] \div 256,
     x[2] % 256, x[2] \div 256, x[1] % 256, x[1] \div 256 >>

\* a < b on bigints
Lt64(a, b) ==
  \E i \in 1..4 : a[i] < b[i] /\ \A j \in 1..(i - 1) : a[j] = b[j]

Le64(a, b) == a = b \/ Lt64(a, b)

\* Number(n) of a bigint offset; values that do not fit the model's integers
\* are larger than any file size and are kept as Huge
Huge == 1000000000
ToNumber(x) == IF x[1] = 0 /\ x[2] = 0 /\ x[3] < 8192 THEN x[3] * 65536 + x[4] ELSE Huge

(***************************************************************************)
(* Character codes and the strings of the format                           *)
(***************************************************************************)
ChColon == 58
ChSemi == 59
ChSpace == 32
ChLBracket == 91
ChRBracket == 93
ChUnderscore == 95
Digits == 48..57
WhiteSpace == {9, 10, 11, 12, 13, 32}

S_int8_t == <<105, 110, 116, 56, 95, 116>>
S_uint8_t == <<117, 105, 110, 116, 56, 95, 116>>
S_int16_t == <<105, 110, 116, 49, 54, 95, 116>>
S_uint16_t == <<117, 105, 110, 116, 49, 54, 95, 116>>
S_int32_t == <<105, 110, 116, 51, 50, 95, 116>>
S_uint32_t == <<117, 105, 110, 116, 51, 50, 95, 116>>
S_int64_t == <<105, 110, 116, 54, 52, 95, 116>>
S_uint64_t == <<117, 105, 110, 116, 54, 52, 95, 116>>
S_float == <<102, 108, 111, 97, 116>>
S_double == <<100, 111, 117, 98, 108, 101>>
S_bool == <<98, 111, 111, 108>>
S_char == <<99, 104, 97, 114>>
S_timestamp == <<116, 105, 109, 101, 115, 116, 97, 109, 112>>

BUILTIN_TYPES ==
  { S_int8_t, S_uint8_t, S_int16_t, S_uint16_t, S_int32_t, S_uint32_t,
    S_int64_t, S_uint64_t, S_float, S_double, S_bool, S_char }

BASIC_SIZES(type) ==
  CASE type \in {S_bool, S_int8_t, S_uint8_t, S_char} -> 1
    [] type \in {S_int16_t, S_uint16_t} -> 2
    [] type \in {S_int32_t, S_uint32_t, S_float} -> 4
    [] type \in {S_int64_t, S_uint64_t, S_double} -> 8

(***************************************************************************)
(* String operations used by the definition parser                         *)
(***************************************************************************)
\* String.prototype.split(c): the pieces between occurrences of c
RECURSIVE SplitFrom(_, _, _)
SplitFrom(s, c, cur) ==
  IF s = <<>> THEN << cur >>
  ELSE IF Head(s) = c THEN << cur >> \o SplitFrom(Tail(s), c, <<>>)
  ELSE SplitFrom(Tail(s), c, Append(cur, Head(s)))

Split(s, c) == SplitFrom(s, c, <<>>)

\* String.prototype.trim()
RECURSIVE TrimLeft(_)
TrimLeft(s) ==
  IF s # <<>> /\ Head(s) \in WhiteSpace THEN TrimLeft(Tail(s)) ELSE s

RECURSIVE TrimRight(_)
TrimRight(s) ==
  IF s # <<>> /\ s[Len(s)] \in WhiteSpace THEN TrimRight(SubSeq(s, 1, Len(s) - 1)) ELSE s

Trim(s) == TrimRight(TrimLeft(s))

\* parseInt of a non-empty string of decimal digits
RECURSIVE ParseInt(_)
ParseInt(s) ==
  IF s = <<>> THEN 0 ELSE ParseInt(SubSeq(s, 1, Len(s) - 1)) * 10 + (s[Len(s)] - 48)

\* /([^[]+)\[(\d+)\]/.exec(s): the leftmost match.  A match is a '[' at
\* position j that has at least one non-'[' character before it and is
\* followed by one or more digits and a ']'; group 1 is the run of
\* non-'[' characters that ends at j, group 2 the digits.
ArrayMatchAt(s, j) ==
  /\ j > 1
  /\ s[j] = ChLBracket
  /\ s[j - 1] # ChLBracket
  /\ \E k \in (j + 2)..Len(s) :
       /\ s[k] = ChRBracket
       /\ \A d \in (j + 1)..(k - 1) : s[d] \in Digits

ArrayMatch(s) ==
  LET js == { j \in 1..Len(s) : ArrayMatchAt(s, j) }
  IN IF js = {} THEN [ok |-> FALSE]
     ELSE LET j == CHOOSE x \in js : \A y \in js : x <= y
              k == CHOOSE x \in (j + 2)..Len(s) :
                     /\ s[x] = ChRBracket
                     /\ \A d \in (j + 1)..(x - 1) : s[d] \in Digits
              starts == { i \in 1..(j - 1) : \A m \in i..(j - 1) : s[m] # ChLBracket }
              i == CHOOSE x \in starts : \A y \in starts : x <= y
          IN [ok |-> TRUE, type |-> SubSeq(s, i, j - 1), digits |-> SubSeq(s, j + 1, k - 1)]

(***************************************************************************)
(* definition.ts                                                           *)
(***************************************************************************)
NoField == [ok |-> FALSE]

parseFieldDefinition(fieldString) ==
  LET Plain(typeAndArray, name) ==
        [ok |-> TRUE, type |-> typeAndArray, name |-> name,
         isArray |-> FALSE, arrayLength |-> 0,
         isComplex |-> typeAndArray \notin BUILTIN_TYPES]
      Array(type, name, arrayLength) ==
        IF arrayLength <= 0 THEN NoField
        ELSE [ok |-> TRUE, type |-> type, name |-> name,
              isArray |-> TRUE, arrayLength |-> arrayLength,
              isComplex |-> type \notin BUILTIN_TYPES]
      Matched(typeAndArray, name, arrayMatch) ==
        IF arrayMatch.ok
        THEN Array(arrayMatch.type, name, ParseInt(arrayMatch.digits))
        ELSE Plain(typeAndArray, name)
      Parts(typeAndArray, name) ==
        IF typeAndArray = <<>> \/ name = <<>> THEN NoField
        ELSE Matched(typeAndArray, name, ArrayMatch(typeAndArray))
      Pieces(parts) == Parts(parts[1], IF Len(parts) >= 2 THEN parts[2] ELSE <<>>)
  IN Pieces(Split(fieldString, ChSpace))

NoDefinition == [ok |-> FALSE]

\* the fields of the non-empty trimmed pieces of fieldStrings
FieldsOf(fieldStrings) ==
  LET Kept(kept) == [i \in 1..Len(kept) |-> parseFieldDefinition(kept[i])]
      Trimmed(pieces) ==
        Kept(SelectSeq([i \in 1..Len(pieces) |-> Trim(pieces[i])], LAMBDA t : t # <<>>))
  IN Trimmed(Split(fieldStrings, ChSemi))

parseMessageDefinition(format) ==
  LET Fields(name, fields) ==
        IF \E i \in 1..Len(fields) : ~fields[i].ok THEN NoDefinition
        ELSE [ok |-> TRUE, name |-> name, fields |-> fields, format |-> format]
      Parts(name, fieldStrings) ==
        IF name = <<>> \/ fieldStrings = <<>> THEN NoDefinition
        ELSE Fields(name, FieldsOf(fieldStrings))
      Pieces(parts) == Parts(parts[1], IF Len(parts) >= 2 THEN parts[2] ELSE <<>>)
  IN Pieces(Split(format, ChColon))

(***************************************************************************)
(* ByteSource (Filelike): read(offset, length) returns the bytes that      *)
(* exist, at most length of them, in a fresh buffer                         *)
(***************************************************************************)
Size == Len(file)

SourceReadLen(offset, length) == Max(0, Min(length, Size - offset))

SourceRead(offset, length) == SubSeq(file, offset + 1, offset + SourceReadLen(offset, length))

(***************************************************************************)
(* ChunkedReader.  chunk holds the bytes of #chunk, chunkLen its           *)
(* byteLength (0 while #chunk is undefined), hasChunk whether it is        *)
(* defined.                                                                *)
(***************************************************************************)
NewReader(size) ==
  [chunkSize |-> size, fileCursor |-> 0, hasChunk |-> FALSE, chunk |-> <<>>,
   chunkLen |-> 0, chunkCursor |-> 0]

position(rd) == rd.fileCursor - rd.chunkLen + rd.chunkCursor

remaining(rd) == Size - position(rd)

clamp(value, min, max) == Max(min, Min(max, value))

\* TypedArray.prototype.slice(begin) and ArrayBuffer.prototype.slice(begin,
\* end): a negative index counts from the end, and both are clamped
SliceIndex(len, i) == IF i < 0 THEN Max(len + i, 0) ELSE Min(i, len)

BufferSlice(bytes, begin, end) ==
  SubSeq(bytes, SliceIndex(Len(bytes), begin) + 1, SliceIndex(Len(bytes), end))

\* DataView.getUint8(i) on the chunk: defined for 0 <= i < chunkLen
ViewInRange(rd, i, n) == i >= 0 /\ i + n <= rd.chunkLen

ViewByte(rd, i) == rd.chunk[i + 1]

ViewBytes(rd, i, n) == [k \in 1..n |-> ViewByte(rd, i + k - 1)]

\* a seekTo that takes the end of the file for an offset outside of it
seekToInside(rd, byteOffset) ==
  IF byteOffset < 0 \/ byteOffset >= Size
  THEN [ok |-> FALSE, rd |-> rd]
  ELSE [ok |-> TRUE,
        rd |-> [rd EXCEPT !.fileCursor = byteOffset, !.hasChunk = FALSE, !.chunk = <<>>,
                          !.chunkLen = 0, !.chunkCursor = 0]]

seekTo(rd, byteOffset) ==
  IF byteOffset < 0 \/ byteOffset > Size
  THEN [ok |-> FALSE, rd |-> rd]
  ELSE [ok |-> TRUE,
        rd |-> [rd EXCEPT !.fileCursor = byteOffset, !.hasChunk = FALSE, !.chunk = <<>>,
                          !.chunkLen = 0, !.chunkCursor = 0]]

seek(rd, relativeByteOffset) == seekTo(rd, position(rd) + relativeByteOffset)

\* this.#file.read(fileCursor, clamp(chunkSize, wanted, fileRemaining)): the
\* reader after the read, its chunk being concat(kept, the bytes read)
Loaded(rd, wanted, kept) ==
  LET Read(data) ==
        [rd EXCEPT !.fileCursor = @ + Len(data), !.hasChunk = TRUE,
                   !.chunk = kept \o data, !.chunkLen = Len(kept) + Len(data),
                   !.chunkCursor = 0]
  IN Read(SourceRead(rd.fileCursor, clamp(rd.chunkSize, wanted, Size - rd.fileCursor)))

fetch(rd, bytesRequired) ==
  IF bytesRequired > remaining(rd) THEN [ok |-> FALSE, rd |-> rd]
  ELSE
    LET Concatenated(r2) == [ok |-> r2.chunkLen >= bytesRequired, rd |-> r2]
        Available(r1, bytesAvailable) ==
          IF bytesAvailable < bytesRequired
          THEN Concatenated(Loaded(r1, bytesRequired - bytesAvailable,
                                   BufferSlice(r1.chunk, r1.chunkCursor, r1.chunkLen)))
          ELSE [ok |-> TRUE, rd |-> r1]
        First(r1) == Available(r1, r1.chunkLen - r1.chunkCursor)
    IN First(IF ~rd.hasChunk \/ rd.chunkCursor = rd.chunkLen
             THEN Loaded(rd, bytesRequired, <<>>)
             ELSE rd)

Advance(rd, n) == [rd EXCEPT !.chunkCursor = @ + n]

skip(rd, count) ==
  LET Fetched(f) ==
        IF ~f.ok THEN [ok |-> FALSE, v |-> 0, rd |-> f.rd]
        ELSE [ok |-> TRUE, v |-> 0, rd |-> Advance(f.rd, count)]
  IN IF count < 0 \/ rd.chunkCursor + count < 0 \/ rd.chunkCursor + count > Size
     THEN [ok |-> FALSE, v |-> 0, rd |-> rd]
     ELSE Fetched(fetch(rd, count))

peekUint8(rd, offset) ==
  LET Fetched(f) ==
        IF ~f.ok \/ ~ViewInRange(f.rd, f.rd.chunkCursor + offset, 1)
        THEN [ok |-> FALSE, v |-> 0, rd |-> f.rd]
        ELSE [ok |-> TRUE, v |-> ViewByte(f.rd, f.rd.chunkCursor + offset), rd |-> f.rd]
  IN Fetched(fetch(rd, offset + 1))

\* readBytes returns a view into the chunk: off is its byteOffset in the chunk
readBytes(rd, count) ==
  LET Fetched(f) ==
        IF ~f.ok \/ count < 0 \/ ~ViewInRange(f.rd, f.rd.chunkCursor, count)
        THEN [ok |-> FALSE, v |-> <<>>, off |-> 0, rd |-> f.rd]
        ELSE [ok |-> TRUE, v |-> ViewBytes(f.rd, f.rd.chunkCursor, count),
              off |-> f.rd.chunkCursor, rd |-> Advance(f.rd, count)]
  IN Fetched(fetch(rd, count))

\* getUint8(this.#chunkCursor++): the cursor moves before the view is read
readUint8(rd) ==
  LET Fetched(f) ==
        IF ~f.ok THEN [ok |-> FALSE, v |-> 0, rd |-> f.rd]
        ELSE IF ~ViewInRange(f.rd, f.rd.chunkCursor, 1)
        THEN [ok |-> FALSE, v |-> 0, rd |-> Advance(f.rd, 1)]
        ELSE [ok |-> TRUE, v |-> ViewByte(f.rd, f.rd.chunkCursor), rd |-> Advance(f.rd, 1)]
  IN Fetched(fetch(rd, 1))

readUint16(rd) ==
  LET Fetched(f) ==
        IF ~f.ok \/ ~ViewInRange(f.rd, f.rd.chunkCursor, 2) THEN [ok |-> FALSE, v |-> 0, rd |-> f.rd]
        ELSE [ok |-> TRUE,
              v |-> ViewByte(f.rd, f.rd.chunkCursor)
                      + 256 * ViewByte(f.rd, f.rd.chunkCursor + 1),
              rd |-> Advance(f.rd, 2)]
  IN Fetched(fetch(rd, 2))

\* the little-endian number of n bytes, and its two's complement reading
RECURSIVE LittleEndian(_)
LittleEndian(bytes) ==
  IF bytes = <<>> THEN 0 ELSE Head(bytes) + 256 * LittleEndian(Tail(bytes))

Signed(n, bits) == IF n >= 2 ^ (bits - 1) THEN n - 2 ^ bits ELSE n

\* a typed read of n bytes: v is the bytes the DataView getter decodes
readTyped(rd, n) ==
  LET Fetched(f) ==
        IF ~f.ok \/ ~ViewInRange(f.rd, f.rd.chunkCursor, n)
        THEN [ok |-> FALSE, v |-> 0, rd |-> f.rd]
        ELSE [ok |-> TRUE, v |-> ViewBytes(f.rd, f.rd.chunkCursor, n),
              rd |-> Advance(f.rd, n)]
  IN Fetched(fetch(rd, n))

readInt16(rd) ==
  LET Read(r) == IF r.ok THEN [r EXCEPT !.v = Signed(LittleEndian(@), 16)] ELSE r
  IN Read(readTyped(rd, 2))

\* a 32-bit integer is kept as two limbs << high, low >>, the high one signed
\* in a signed integer
readInt32(rd) ==
  LET Read(r) ==
        IF r.ok
        THEN [r EXCEPT !.v = << Signed(LittleEndian(SubSeq(@, 3, 4)), 16),
                                LittleEndian(SubSeq(@, 1, 2)) >>]
        ELSE r
  IN Read(readTyped(rd, 4))

readUint32(rd) ==
  LET Read(r) ==
        IF r.ok
        THEN [r EXCEPT !.v = << LittleEndian(SubSeq(@, 3, 4)),
                                LittleEndian(SubSeq(@, 1, 2)) >>]
        ELSE r
  IN Read(readTyped(rd, 4))

\* a float is kept as the bytes of its IEEE 754 encoding, lowest first
readFloat32(rd) == readTyped(rd, 4)

readFloat64(rd) == readTyped(rd, 8)

\* a signed 64-bit integer is kept as the limbs of its two's complement
readInt64(rd) ==
  LET Read(r) == IF r.ok THEN [r EXCEPT !.v = U64FromBytes(@)] ELSE r
  IN Read(readTyped(rd, 8))

readUint64(rd) ==
  LET Fetched(f) ==
        IF ~f.ok \/ ~ViewInRange(f.rd, f.rd.chunkCursor, 8) THEN [ok |-> FALSE, v |-> U64(0), rd |-> f.rd]
        ELSE [ok |-> TRUE, v |-> U64FromBytes(ViewBytes(f.rd, f.rd.chunkCursor, 8)),
              rd |-> Advance(f.rd, 8)]
  IN Fetched(fetch(rd, 8))

\* readString decodes view.buffer.slice(a, a + length), a = #chunkCursor (the
\* view starts at byte 0 of its buffer), whatever the sign of length and a
readString(rd, length) ==
  LET Fetched(f) ==
        IF ~f.ok THEN [ok |-> FALSE, v |-> <<>>, rd |-> f.rd]
        ELSE [ok |-> TRUE,
              v |-> BufferSlice(f.rd.chunk, f.rd.chunkCursor, f.rd.chunkCursor + length),
              rd |-> Advance(f.rd, length)]
  IN Fetched(fetch(rd, length))

(***************************************************************************)
(* enums.ts: MessageType.  Unknown stands for MessageType.Unknown, the     *)
(* type readMessageUnknown gives to a record with any other tag.           *)
(***************************************************************************)
FlagBits == 66
Information == 73
FormatDefinition == 70
InformationMulti == 77
Parameter == 80
ParameterDefault == 81
AddLogged == 65
RemoveLogged == 82
Data == 68
Log == 76
LogTagged == 67
Synchronization == 83
Dropout == 79
Unknown == 0

SYNC_MAGIC == <<47, 115, 19, 32, 37, 12, 187, 18>>

(***************************************************************************)
(* readMessage.ts: the record codec.  Every reader returns                 *)
(* [ok, msg, rd]; ok = FALSE stands for a thrown error, rd is the reader   *)
(* as the failed call left it.                                             *)
(***************************************************************************)
NoMsg == [type |-> -1]

Thrown(rd) == [ok |-> FALSE, msg |-> NoMsg, rd |-> rd]

Returned(msg, rd) == [ok |-> TRUE, msg |-> msg, rd |-> rd]

readMessageFlagBits(rd, hd) ==
  IF hd.size < 40 THEN Thrown(rd)
  ELSE
    LET Offset3(compatFlags, incompatFlags, o1, o2, o3) ==
          IF ~o3.ok THEN Thrown(o3.rd)
          ELSE Returned([type |-> hd.type, size |-> hd.size,
                         compatibleFlags |-> compatFlags.v,
                         incompatibleFlags |-> incompatFlags.v,
                         appendedOffsets |-> <<o1.v, o2.v, o3.v>>], o3.rd)
        Offset2(compatFlags, incompatFlags, o1, o2) ==
          IF ~o2.ok THEN Thrown(o2.rd)
          ELSE Offset3(compatFlags, incompatFlags, o1, o2, readUint64(o2.rd))
        Offset1(compatFlags, incompatFlags, o1) ==
          IF ~o1.ok THEN Thrown(o1.rd)
          ELSE Offset2(compatFlags, incompatFlags, o1, readUint64(o1.rd))
        Incompat(compatFlags, incompatFlags) ==
          IF ~incompatFlags.ok THEN Thrown(incompatFlags.rd)
          ELSE IF \E i \in 0..7 :
                    \/ i = 0 /\ incompatFlags.v[i + 1] > 1
                    \/ i # 0 /\ incompatFlags.v[i + 1] # 0
               THEN Thrown(incompatFlags.rd)
          ELSE Offset1(compatFlags, incompatFlags, readUint64(incompatFlags.rd))
        Compat(compatFlags) ==
          IF ~compatFlags.ok THEN Thrown(compatFlags.rd)
          ELSE Incompat(compatFlags, readBytes(compatFlags.rd, 8))
    IN Compat(readBytes(rd, 8))

\* readMessageInformation and readMessageParameter have the same body
readMessageInformation(rd, hd) ==
  LET Value(key, value) ==
        IF ~value.ok THEN Thrown(value.rd)
        ELSE Returned([type |-> hd.type, size |-> hd.size, key |-> key.v, value |-> value.v],
                      value.rd)
      Key(keyLen, key) ==
        IF ~key.ok THEN Thrown(key.rd)
        ELSE Value(key, readBytes(key.rd, hd.size - 1 - keyLen.v))
      KeyLen(keyLen) ==
        IF ~keyLen.ok THEN Thrown(keyLen.rd)
        ELSE IF keyLen.v > hd.size - 1 THEN Thrown(keyLen.rd)
        ELSE Key(keyLen, readString(keyLen.rd, keyLen.v))
  IN KeyLen(readUint8(rd))

readMessageParameter(rd, hd) == readMessageInformation(rd, hd)

readMessageInformationMulti(rd, hd) ==
  LET Value(isContinued, key, value) ==
        IF ~value.ok THEN Thrown(value.rd)
        ELSE Returned([type |-> hd.type, size |-> hd.size,
                       isContinued |-> isContinued.v # 0,
                       key |-> key.v, value |-> value.v], value.rd)
      Key(isContinued, keyLen, key) ==
        IF ~key.ok THEN Thrown(key.rd)
        ELSE Value(isContinued, key, readBytes(key.rd, hd.size - 2 - keyLen.v))
      KeyLen(isContinued, keyLen) ==
        IF ~keyLen.ok THEN Thrown(keyLen.rd)
        ELSE IF keyLen.v > hd.size - 1 THEN Thrown(keyLen.rd)
        ELSE Key(isContinued, keyLen, readString(keyLen.rd, keyLen.v))
      IsContinued(isContinued) ==
        IF ~isContinued.ok THEN Thrown(isContinued.rd)
        ELSE KeyLen(isContinued, readUint8(isContinued.rd))
  IN IsContinued(readUint8(rd))

readMessageFormatDefinition(rd, hd) ==
  LET Format(format) ==
        IF ~format.ok THEN Thrown(format.rd)
        ELSE Returned([type |-> hd.type, size |-> hd.size, format |-> format.v], format.rd)
  IN Format(readString(rd, hd.size))

readMessageParameterDefault(rd, hd) ==
  LET Value(defaultTypes, key, value) ==
        IF ~value.ok THEN Thrown(value.rd)
        ELSE Returned([type |-> hd.type, size |-> hd.size,
                       defaultTypes |-> defaultTypes.v,
                       key |-> key.v, value |-> value.v], value.rd)
      Key(defaultTypes, keyLen, key) ==
        IF ~key.ok THEN Thrown(key.rd)
        ELSE Value(defaultTypes, key, readBytes(key.rd, hd.size - 2 - keyLen.v))
      KeyLen(defaultTypes, keyLen) ==
        IF ~keyLen.ok THEN Thrown(keyLen.rd)
        ELSE IF keyLen.v > hd.size - 2 THEN Thrown(keyLen.rd)
        ELSE Key(defaultTypes, keyLen, readString(keyLen.rd, keyLen.v))
      DefaultTypes(defaultTypes) ==
        IF ~defaultTypes.ok THEN Thrown(defaultTypes.rd)
        ELSE KeyLen(defaultTypes, readUint8(defaultTypes.rd))
  IN DefaultTypes(readUint8(rd))

readMessageAddLogged(rd, hd) ==
  IF hd.size < 3 THEN Thrown(rd)
  ELSE
    LET MessageName(multiId, msgId, messageName) ==
          IF ~messageName.ok THEN Thrown(messageName.rd)
          ELSE Returned([type |-> hd.type, size |-> hd.size, multiId |-> multiId.v,
                         msgId |-> msgId.v, messageName |-> messageName.v], messageName.rd)
        MsgId(multiId, msgId) ==
          IF ~msgId.ok THEN Thrown(msgId.rd)
          ELSE MessageName(multiId, msgId, readString(msgId.rd, hd.size - 3))
        MultiId(multiId) ==
          IF ~multiId.ok THEN Thrown(multiId.rd)
          ELSE MsgId(multiId, readUint16(multiId.rd))
    IN MultiId(readUint8(rd))

readMessageRemoveLogged(rd, hd) ==
  IF hd.size < 1 THEN Thrown(rd)
  ELSE
    LET MsgId(msgId) ==
          IF ~msgId.ok THEN Thrown(msgId.rd)
          ELSE Returned([type |-> hd.type, size |-> hd.size, msgId |-> msgId.v], msgId.rd)
    IN MsgId(readUint8(rd))

\* data is a view into the chunk: dataOff is data.byteOffset
readMessageData(rd, hd) ==
  IF hd.size < 2 THEN Thrown(rd)
  ELSE
    LET DataBytes(msgId, data) ==
          IF ~data.ok THEN Thrown(data.rd)
          ELSE Returned([type |-> hd.type, size |-> hd.size, msgId |-> msgId.v,
                         data |-> data.v, dataOff |-> data.off], data.rd)
        MsgId(msgId) ==
          IF ~msgId.ok THEN Thrown(msgId.rd)
          ELSE DataBytes(msgId, readBytes(msgId.rd, hd.size - 2))
    IN MsgId(readUint16(rd))

readMessageLog(rd, hd) ==
  IF hd.size < 9 THEN Thrown(rd)
  ELSE
    LET Message(logLevel, timestamp, message) ==
          IF ~message.ok THEN Thrown(message.rd)
          ELSE Returned([type |-> hd.type, size |-> hd.size, logLevel |-> logLevel.v,
                         timestamp |-> timestamp.v, message |-> message.v], message.rd)
        Timestamp(logLevel, timestamp) ==
          IF ~timestamp.ok THEN Thrown(timestamp.rd)
          ELSE Message(logLevel, timestamp, readString(timestamp.rd, hd.size - 9))
        LogLevel(logLevel) ==
          IF ~logLevel.ok THEN Thrown(logLevel.rd)
          ELSE Timestamp(logLevel, readUint64(logLevel.rd))
    IN LogLevel(readUint8(rd))

readMessageLogTagged(rd, hd) ==
  IF hd.size < 11 THEN Thrown(rd)
  ELSE
    LET Message(logLevel, tag, timestamp, message) ==
          IF ~message.ok THEN Thrown(message.rd)
          ELSE Returned([type |-> hd.type, size |-> hd.size, logLevel |-> logLevel.v,
                         tag |-> tag.v, timestamp |-> timestamp.v, message |-> message.v],
                        message.rd)
        Timestamp(logLevel, tag, timestamp) ==
          IF ~timestamp.ok THEN Thrown(timestamp.rd)
          ELSE Message(logLevel, tag, timestamp, readString(timestamp.rd, hd.size - 11))
        Tag(logLevel, tag) ==
          IF ~tag.ok THEN Thrown(tag.rd)
          ELSE Timestamp(logLevel, tag, readUint64(tag.rd))
        LogLevel(logLevel) ==
          IF ~logLevel.ok THEN Thrown(logLevel.rd)
          ELSE Tag(logLevel, readUint16(logLevel.rd))
    IN LogLevel(readUint8(rd))

readMessageSynchronization(rd, hd) ==
  IF hd.size # 8 THEN Thrown(rd)
  ELSE
    LET SyncMagic(syncMagic) ==
          IF ~syncMagic.ok THEN Thrown(syncMagic.rd)
          ELSE IF \E i \in 1..8 : syncMagic.v[i] # SYNC_MAGIC[i] THEN Thrown(syncMagic.rd)
          ELSE Returned([type |-> hd.type, size |-> hd.size, syncMagic |-> SYNC_MAGIC],
                        syncMagic.rd)
    IN SyncMagic(readBytes(rd, 8))

readMessageDropout(rd, hd) ==
  IF hd.size < 2 THEN Thrown(rd)
  ELSE
    LET Duration(duration) ==
          IF ~duration.ok THEN Thrown(duration.rd)
          ELSE Returned([type |-> hd.type, size |-> hd.size, duration |-> duration.v],
                        duration.rd)
    IN Duration(readUint16(rd))

readMessageUnknown(rd, hd) ==
  LET DataBytes(data) ==
        IF ~data.ok THEN Thrown(data.rd)
        ELSE Returned([type |-> Unknown, size |-> hd.size, unknownType |-> hd.type,
                       data |-> data.v], data.rd)
  IN DataBytes(readBytes(rd, hd.size))

readMessageHeader(rd) ==
  LET Type(size, type) ==
        IF ~type.ok THEN [ok |-> FALSE, rd |-> type.rd]
        ELSE [ok |-> TRUE, size |-> size.v, type |-> type.v, rd |-> type.rd]
      SizeField(size) ==
        IF ~size.ok THEN [ok |-> FALSE, rd |-> size.rd]
        ELSE Type(size, readUint8(size.rd))
  IN SizeField(readUint16(rd))

\* the dispatch inside the try block of readRawMessage
readByType(rd, hd) ==
  CASE hd.type = FlagBits -> readMessageFlagBits(rd, hd)
    [] hd.type = Information -> readMessageInformation(rd, hd)
    [] hd.type = InformationMulti -> readMessageInformationMulti(rd, hd)
    [] hd.type = FormatDefinition -> readMessageFormatDefinition(rd, hd)
    [] hd.type = Parameter -> readMessageParameter(rd, hd)
    [] hd.type = ParameterDefault -> readMessageParameterDefault(rd, hd)
    [] hd.type = AddLogged -> readMessageAddLogged(rd, hd)
    [] hd.type = RemoveLogged -> readMessageRemoveLogged(rd, hd)
    [] hd.type = Data -> readMessageData(rd, hd)
    [] hd.type = Log -> readMessageLog(rd, hd)
    [] hd.type = LogTagged -> readMessageLogTagged(rd, hd)
    [] hd.type = Synchronization -> readMessageSynchronization(rd, hd)
    [] hd.type = Dropout -> readMessageDropout(rd, hd)
    [] OTHER -> readMessageUnknown(rd, hd)

\* a readRawMessage that looks at the end of the file only, whatever dataEnd
readRawMessageToEof(rd, end) ==
  IF remaining(rd) < 3
  THEN [msg |-> NoMsg, rd |-> rd]
  ELSE
    LET Read(r) ==
          IF ~r.ok THEN [msg |-> NoMsg, rd |-> r.rd]
          ELSE [msg |-> r.msg, rd |-> r.rd]
        Header(hd) ==
          IF ~hd.ok THEN [msg |-> NoMsg, rd |-> hd.rd]
          ELSE Read(readByType(hd.rd, hd))
    IN Header(readMessageHeader(rd))

\* readRawMessage never throws: [msg, rd], msg = NoMsg for undefined.
\* end is dataEnd, -1 when it is undefined.
readRawMessage(rd, end) ==
  IF (end # -1 /\ end - position(rd) < 3) \/ (end = -1 /\ remaining(rd) < 3)
  THEN [msg |-> NoMsg, rd |-> rd]
  ELSE
    LET Read(r) ==
          IF ~r.ok THEN [msg |-> NoMsg, rd |-> r.rd]
          ELSE [msg |-> r.msg, rd |-> r.rd]
        Header(hd) ==
          IF ~hd.ok THEN [msg |-> NoMsg, rd |-> hd.rd]
          ELSE Read(readByType(hd.rd, hd))
    IN Header(readMessageHeader(rd))

(***************************************************************************)
(* parse.ts: the message decoder.  A view is the byte sequence of a        *)
(* DataView; reading outside it throws (RangeError).  Decoded values:      *)
(*   [k |-> "bigint", v |-> limbs]     int64_t / uint64_t                  *)
(*   [k |-> "number", v |-> bytes]     other numeric types, as their bytes *)
(*   [k |-> "boolean", v |-> b], [k |-> "string", v |-> chars],            *)
(*   [k |-> "array", v |-> values], [k |-> "struct", v |-> name -> value]  *)
(* Field.size only memoizes fieldSize; the definitions table is complete   *)
(* before the first call, so the memo never differs from a recomputation.  *)
(* MaxDepth stands for the depth of the call stack: a recursion deeper     *)
(* than that is a stack overflow (RangeError).                             *)
(***************************************************************************)
MaxDepth == 4

I64FromBytes(b) ==
  LET u == U64FromBytes(b)
  IN << IF u[1] >= 32768 THEN u[1] - 65536 ELSE u[1], u[2], u[3], u[4] >>

BadValue == [ok |-> FALSE]

BASIC_PARSERS(type, view, offset) ==
  LET n == BASIC_SIZES(type)
  IN IF offset < 0 \/ offset + n > Len(view) THEN BadValue
     ELSE LET b == SubSeq(view, offset + 1, offset + n)
          IN CASE type = S_bool -> [ok |-> TRUE, val |-> [k |-> "boolean", v |-> b[1] # 0]]
               [] type = S_char -> [ok |-> TRUE, val |-> [k |-> "string", v |-> b]]
               [] type = S_uint64_t -> [ok |-> TRUE, val |-> [k |-> "bigint", v |-> U64FromBytes(b)]]
               [] type = S_int64_t -> [ok |-> TRUE, val |-> [k |-> "bigint", v |-> I64FromBytes(b)]]
               [] OTHER -> [ok |-> TRUE, val |-> [k |-> "number", v |-> b]]

parseBasicFieldValue(field, view, offset) ==
  IF field.isArray
  THEN IF field.type = S_char
       THEN LET len == Min(field.arrayLength, Len(view) - offset)
            IN IF len < 0 THEN BadValue
               ELSE [ok |-> TRUE, val |-> [k |-> "string", v |-> SubSeq(view, offset + 1, offset + len)]]
       ELSE LET basicSize == BASIC_SIZES(field.type)
                output == [i \in 1..field.arrayLength |->
                             BASIC_PARSERS(field.type, view, offset + (i - 1) * basicSize)]
            IN IF \E i \in 1..field.arrayLength : ~output[i].ok THEN BadValue
               ELSE [ok |-> TRUE,
                     val |-> [k |-> "array", v |-> [i \in 1..field.arrayLength |-> output[i].val]]]
  ELSE BASIC_PARSERS(field.type, view, offset)

\* sizes: -1 stands for a thrown error (unknown type, stack overflow)
RECURSIVE fieldSizeD(_, _, _)
RECURSIVE messageSizeFrom(_, _, _, _)

messageSizeD(definition, definitions, depth) ==
  messageSizeFrom(definition.fields, 1, definitions, depth)

\* definition.fields.reduce((size, f) => size + fieldSize(f, definitions), 0)
messageSizeFrom(fields, i, definitions, depth) ==
  IF i > Len(fields) THEN 0
  ELSE LET Rest(fs, rest) == IF rest < 0 THEN -1 ELSE fs + rest
           This(fs) ==
             IF fs < 0 THEN -1
             ELSE Rest(fs, messageSizeFrom(fields, i + 1, definitions, depth))
       IN This(fieldSizeD(fields[i], definitions, depth))

fieldSizeD(field, definitions, depth) ==
  IF depth > MaxDepth THEN -1
  ELSE IF field.isComplex
  THEN IF field.type \notin DOMAIN definitions THEN -1
       ELSE messageSizeD(definitions[field.type], definitions, depth + 1)
  ELSE BASIC_SIZES(field.type)

fieldSize(field, definitions) == fieldSizeD(field, definitions, 0)

messageSize(definition, definitions) == messageSizeD(definition, definitions, 0)

IsPadding(name) == name # <<>> /\ name[1] = ChUnderscore

RECURSIVE parseMessageD(_, _, _, _, _)
RECURSIVE parseFieldsFrom(_, _, _, _, _, _, _)
RECURSIVE parseFieldValueD(_, _, _, _, _)
RECURSIVE parseElements(_, _, _, _, _, _, _, _)

\* typeof output.timestamp === "bigint"
HasBigintTimestamp(output) ==
  S_timestamp \in DOMAIN output /\ output[S_timestamp].k = "bigint"

parseMessageD(definition, definitions, view, offset, depth) ==
  IF depth > MaxDepth THEN BadValue
  ELSE LET Output(r) ==
             IF ~r.ok THEN BadValue
             ELSE IF ~HasBigintTimestamp(r.val) THEN BadValue
             ELSE [ok |-> TRUE, val |-> [k |-> "struct", v |-> r.val]]
       IN Output(parseFieldsFrom(definition.fields, 1, definitions, view, offset, depth, <<>>))

\* the loop over definition.fields of parseMessage; output is the object so far
parseFieldsFrom(fields, i, definitions, view, curOffset, depth, output) ==
  IF i > Len(fields) THEN [ok |-> TRUE, val |-> output]
  ELSE IF IsPadding(fields[i].name)
  THEN parseFieldsFrom(fields, i + 1, definitions, view, curOffset, depth, output)
  ELSE LET Sized(field, pv, fs) ==
             IF fs < 0 THEN BadValue
             ELSE parseFieldsFrom(fields, i + 1, definitions, view,
                    curOffset + fs * (IF field.isArray THEN field.arrayLength ELSE 1),
                    depth, (field.name :> pv.val) @@ output)
           Parsed(field, pv) ==
             IF ~pv.ok THEN BadValue
             ELSE Sized(field, pv, fieldSizeD(field, definitions, depth))
       IN Parsed(fields[i], parseFieldValueD(fields[i], definitions, view, curOffset, depth))

parseElements(definition, definitions, view, offset, size, i, n, depth) ==
  IF i >= n THEN [ok |-> TRUE, val |-> <<>>]
  ELSE LET Rest(e, rest) ==
             IF ~rest.ok THEN BadValue
             ELSE [ok |-> TRUE, val |-> << e.val >> \o rest.val]
           Element(e) ==
             IF ~e.ok THEN BadValue
             ELSE Rest(e, parseElements(definition, definitions, view, offset, size,
                                        i + 1, n, depth))
       IN Element(parseMessageD(definition, definitions, view, offset + i * size, depth))

parseFieldValueD(field, definitions, view, offset, depth) ==
  IF field.isComplex
  THEN IF field.type \notin DOMAIN definitions THEN BadValue
       ELSE IF field.isArray
       THEN LET Elements(es) ==
                  IF ~es.ok THEN BadValue
                  ELSE [ok |-> TRUE, val |-> [k |-> "array", v |-> es.val]]
                Sized(size) ==
                  IF size < 0 THEN BadValue
                  ELSE Elements(parseElements(definitions[field.type], definitions, view,
                                              offset, size, 0, field.arrayLength, depth + 1))
            IN Sized(fieldSizeD(field, definitions, depth))
       ELSE parseMessageD(definitions[field.type], definitions, view, offset, depth + 1)
  ELSE parseBasicFieldValue(field, view, offset)

parseFieldValue(field, definitions, view, offset) ==
  parseFieldValueD(field, definitions, view, offset, 0)

parseMessage(definition, definitions, view, offset) ==
  parseMessageD(definition, definitions, view, offset, 0)

(***************************************************************************)
(* ULog.ts: the engine                                                     *)
(***************************************************************************)
\* a magic that lacks its last byte
MAGIC_SHORT == <<85, 76, 111, 103, 1, 18>>

MAGIC == <<85, 76, 111, 103, 1, 18, 53>>

None == [def |-> FALSE]

Some(x) == [def |-> TRUE, v |-> x]

DataSectionTypes ==
  {AddLogged, RemoveLogged, Data, Log, LogTagged, Synchronization, Dropout}

DefinitionTypes ==
  {FlagBits, Information, InformationMulti, FormatDefinition, Parameter, ParameterDefault}

\* isDataSectionStart: [ok, v, rd]; a type outside the enum gives undefined (falsy)
isDataSectionStart(rd) ==
  LET type == peekUint8(rd, 2)
  IN [ok |-> type.ok, v |-> type.ok /\ type.v \in DataSectionTypes, rd |-> type.rd]

isValidInfoField(field) == field.ok /\ ~field.isComplex

isValidParameter(field) ==
  field.ok /\ field.type \in {S_int32_t, S_float} /\ ~field.isArray

\* sortTimeIndex(a, b): the sign of the comparator's result
sortTimeIndex(a, b) ==
  IF a[1] = b[1]
  THEN a[2] - b[2]
  ELSE IF Lt64(a[1], b[1]) THEN -1 ELSE 1

\* Array.prototype.sort(compare): the offsets of the entries differ, so the
\* comparator is a total order and the sorted array is unique; computed by
\* insertion
RECURSIVE InsertSorted(_, _)
InsertSorted(sorted, e) ==
  IF sorted = <<>> THEN << e >>
  ELSE IF sortTimeIndex(e, Head(sorted)) < 0 THEN << e >> \o sorted
  ELSE << Head(sorted) >> \o InsertSorted(Tail(sorted), e)

RECURSIVE SortFrom(_, _, _)
SortFrom(entries, i, acc) ==
  IF i > Len(entries) THEN acc ELSE SortFrom(entries, i + 1, InsertSorted(acc, entries[i]))

sort(entries) == SortFrom(entries, 1, <<>>)

\* #handleSubscription: [ok, subs]
handleSubscription(subs, hdr, subscribe) ==
  IF ~hdr.def \/ subscribe.messageName \notin DOMAIN hdr.definitions
  THEN [ok |-> FALSE, subs |-> subs]
  ELSE LET definition == hdr.definitions[subscribe.messageName]
       IN [ok |-> TRUE,
           subs |-> (subscribe.msgId :>
                       [name |-> definition.name, fields |-> definition.fields,
                        format |-> definition.format, multiId |-> subscribe.multiId]) @@ subs]

\* #readParsedMessage: [ok, msg, rd, subs]; ok = FALSE is a thrown error,
\* msg = NoMsg is undefined.  A parsed Data message carries value and the
\* timestamp of value.
readParsedMessage(rd, subs, hdr, end) ==
  IF ~hdr.def THEN [ok |-> FALSE, msg |-> NoMsg, rd |-> rd, subs |-> subs]
  ELSE
    LET Parsed(rawMessage, r, subs2, value) ==
          IF ~value.ok
          THEN [ok |-> FALSE, msg |-> NoMsg, rd |-> r, subs |-> subs2]
          ELSE [ok |-> TRUE,
                msg |-> [type |-> Data, size |-> rawMessage.size,
                         msgId |-> rawMessage.msgId, data |-> rawMessage.data,
                         value |-> value.val,
                         timestamp |-> value.val.v[S_timestamp].v],
                rd |-> r, subs |-> subs2]
        Subscribed(rawMessage, r, hs) ==
          IF ~hs.ok THEN [ok |-> FALSE, msg |-> NoMsg, rd |-> r, subs |-> subs]
          ELSE IF rawMessage.type # Data
               THEN [ok |-> TRUE, msg |-> rawMessage, rd |-> r, subs |-> hs.subs]
          ELSE IF rawMessage.msgId \notin DOMAIN hs.subs
               THEN [ok |-> FALSE, msg |-> NoMsg, rd |-> r, subs |-> hs.subs]
          ELSE Parsed(rawMessage, r, hs.subs,
                      parseMessage(hs.subs[rawMessage.msgId], hdr.definitions,
                                   ViewBytes(r, 0, r.chunkLen), rawMessage.dataOff))
        Raw(rawMessage, r) ==
          IF rawMessage = NoMsg THEN [ok |-> TRUE, msg |-> NoMsg, rd |-> r, subs |-> subs]
          ELSE Subscribed(rawMessage, r,
                          IF rawMessage.type = AddLogged
                          THEN handleSubscription(subs, hdr, rawMessage)
                          ELSE [ok |-> TRUE, subs |-> subs])
        Read(raw) == Raw(raw.msg, raw.rd)
    IN Read(readRawMessage(rd, end))

(***************************************************************************)
(* Input files.  A record is described by its tag, the value of its size   *)
(* field and its payload bytes; the file is the 16-byte header followed by *)
(* the bytes of its records, with the last cut bytes removed.              *)
(***************************************************************************)
MaxRecs == 3      \* records of a file besides the two format definitions
MaxReadRecs == 4  \* Data-section records of a file that is iterated
MaxAgainRecs == 3 \* Data-section records of a file that is iterated twice
MaxFileLen == 9   \* bytes of a file read through a ChunkedReader alone
MaxCount == 3     \* counts, lengths and offsets given to a ChunkedReader alone
MaxAfter == 1     \* calls made after a readString call with a negative length
MaxEntries == 6   \* entries of an index given to findRange alone
MaxTs == 3        \* timestamps of the records are 1 and MaxTs
MaxCut == 3       \* bytes a truncated file lacks at its end
MaxBack == 4      \* an appended offset lies at most this far before the end
SmallChunk == 4   \* chunk sizes of the reader
BigChunk == 256

ChunkSizes == {SmallChunk, BigChunk}

Rec(tag, size, payload) == [tag |-> tag, size |-> size, payload |-> payload]

RecBytes(r) == << r.size % 256, r.size \div 256, r.tag >> \o r.payload

RecLen(r) == 3 + Len(r.payload)

U16Bytes(n) == << n % 256, n \div 256 >>

FileHeader == MAGIC \o << 1 >> \o U64ToBytes(U64(5))

NameM == << 109 >>
NameN == << 110 >>
NameZ == << 122 >>
FmtM == NameM \o << ChColon >> \o S_uint64_t \o << ChSpace >> \o S_timestamp
FmtN == NameN \o << ChColon >> \o S_uint8_t \o << ChSpace, 120, ChSemi >>
          \o S_uint64_t \o << ChSpace >> \o S_timestamp

RecFormat(format) == Rec(FormatDefinition, Len(format), format)

RecFlagBits(size, incompat, app) ==
  Rec(FlagBits, size,
      SubSeq(<<0, 0, 0, 0, 0, 0, 0, 0>> \o incompat \o U64ToBytes(U64(app))
               \o U64ToBytes(U64(0)) \o U64ToBytes(U64(0)), 1, Min(size, 40)))

RecInformation(tag, keyLen, key, value) ==
  Rec(tag, 1 + Len(key) + Len(value), << keyLen >> \o key \o value)

RecAddLogged(multiId, msgId, name) ==
  Rec(AddLogged, 3 + Len(name), << multiId >> \o U16Bytes(msgId) \o name)

RecRemoveLogged(msgId) == Rec(RemoveLogged, 1, << msgId >>)

\* a Data record of definition m (payload: timestamp)
RecData(msgId, ts) == Rec(Data, 10, U16Bytes(msgId) \o U64ToBytes(U64(ts)))

\* a Data record of definition n (payload: x, timestamp)
RecDataN(msgId, x, ts) ==
  Rec(Data, 11, U16Bytes(msgId) \o << x >> \o U64ToBytes(U64(ts)))

RecLog(ts) == Rec(Log, 9, << 54 >> \o U64ToBytes(U64(ts)))

RecLogTagged(ts) == Rec(LogTagged, 11, << 54, 1, 0 >> \o U64ToBytes(U64(ts)))

RecSynchronization(magic) == Rec(Synchronization, 8, magic)

BadMagic == << 47, 115, 19, 32, 37, 12, 187, 19 >>

Timestamps == {1, MaxTs}

\* msg_id 0 is bound to m and may be rebound to n, msg_id 1 is bound to n;
\* z is no declared format
DataCatalogue ==
  { RecAddLogged(0, 0, NameM), RecAddLogged(0, 1, NameN), RecAddLogged(1, 0, NameN),
    RecAddLogged(0, 0, NameZ),
    RecDataN(1, 7, 1), RecLog(1), RecLogTagged(MaxTs),
    RecSynchronization(SYNC_MAGIC), RecSynchronization(BadMagic), RecRemoveLogged(0) }
  \union { RecData(0, t) : t \in Timestamps }

DataSeqs == UNION { [1..n -> DataCatalogue] : n \in 0..MaxRecs }

\* the records of the files that are iterated: they all pass the indexing
ReadCatalogue ==
  { RecAddLogged(0, 0, NameM), RecAddLogged(1, 0, NameN),
    RecLog(1), RecLogTagged(MaxTs), RecRemoveLogged(0) }
  \union { RecData(0, t) : t \in Timestamps }

ReadSeqs == UNION { [1..n -> ReadCatalogue] : n \in 0..MaxReadRecs }

DefsBase == << RecFormat(FmtM), RecFormat(FmtN) >>

KeyA == S_uint8_t \o << ChSpace, 97 >>
KeyP == S_int32_t \o << ChSpace, 112 >>

ExtraDefs ==
  { RecInformation(Information, Len(KeyA), KeyA, << 7 >>),
    RecInformation(Information, Len(KeyA) + 2, KeyA, << 7 >>),
    RecInformation(Parameter, Len(KeyP), KeyP, << 1, 0, 0, 0 >>),
    Rec(90, 0, <<>>),
    RecFormat(NameZ) }

NoFlags == << 0, 0, 0, 0, 0, 0, 0, 0 >>

\* the Definitions sections, given the length of everything but a FlagBits record
DefsChoices(restLen) ==
  LET full == restLen + 43
  IN { DefsBase }
     \union { DefsBase \o << x >> : x \in ExtraDefs }
     \union { << RecFlagBits(40, in, 0) >> \o DefsBase :
                in \in { NoFlags, << 2, 0, 0, 0, 0, 0, 0, 0 >>, << 0, 0, 1, 0, 0, 0, 0, 0 >> } }
     \union { << RecFlagBits(39, NoFlags, 0) >> \o DefsBase }
     \union { << RecFlagBits(40, << 1, 0, 0, 0, 0, 0, 0, 0 >>, app) >> \o DefsBase :
                app \in { full + 1 } \union { full - b : b \in 0..MaxBack } }

RecsBytes(rs) == Flatten([i \in 1..Len(rs) |-> RecBytes(rs[i])])

FileOf(rs, cut) ==
  LET Cut(full) == SubSeq(full, 1, Len(full) - cut)
  IN Cut(FileHeader \o RecsBytes(rs))

(***************************************************************************)
(* findRange.ts                                                            *)
(***************************************************************************)
RECURSIVE findStart(_, _, _, _, _)
findStart(entries, minValue, low, high, startIndex) ==
  IF low > high THEN startIndex
  ELSE LET mid == ((high - low) \div 2) + low
       IN IF Le64(minValue, entries[mid + 1][1])
          THEN findStart(entries, minValue, low, mid - 1, mid)
          ELSE findStart(entries, minValue, mid + 1, high, startIndex)

\* an end search that stops below the entries equal to maxValue
RECURSIVE findEndBelow(_, _, _, _, _)
findEndBelow(entries, maxValue, low, high, endIndex) ==
  IF low > high THEN endIndex
  ELSE LET mid == ((high - low) \div 2) + low
       IN IF Lt64(entries[mid + 1][1], maxValue)
          THEN findEndBelow(entries, maxValue, mid + 1, high, mid)
          ELSE findEndBelow(entries, maxValue, low, mid - 1, endIndex)

RECURSIVE findEnd(_, _, _, _, _)
findEnd(entries, maxValue, low, high, endIndex) ==
  IF low > high THEN endIndex
  ELSE LET mid == ((high - low) \div 2) + low
       IN IF Le64(entries[mid + 1][1], maxValue)
          THEN findEnd(entries, maxValue, mid + 1, high, mid)
          ELSE findEnd(entries, maxValue, low, mid - 1, endIndex)

\* [def, v |-> <<startIndex, endIndex>>], indices 0-based as in the code
findRange(entries, minValue, maxValue) ==
  LET Found(startIndex, endIndex) ==
        IF startIndex # -1 /\ endIndex # -1 THEN Some(<< startIndex, endIndex >>) ELSE None
  IN Found(findStart(entries, minValue, 0, Len(entries) - 1, -1),
           findEnd(entries, maxValue, 0, Len(entries) - 1, -1))

(***************************************************************************)
(* The state machine                                                       *)
(***************************************************************************)
NoIterator == [st |-> "none"]

NoIndexLocals ==
  [timeIndex |-> <<>>, dataCounts |-> <<>>, minTimestamp |-> None,
   maxTimestamp |-> U64(0), logMessageCount |-> 0]

NoLocals ==
  [version |-> 0, timestamp |-> U64(0), flagBits |-> None,
   information |-> <<>>, parameters |-> <<>>, definitions |-> <<>>]

\* no call of findRange or of the reader alone: the engine owns the reader
NoProbe == [op |-> "none"]

\* the engine right after construction, over a given file
Constructed ==
  /\ chunkSize \in ChunkSizes
  /\ reader = NewReader(chunkSize)
  /\ pc = "new"
  /\ header = None
  /\ loc = NoLocals
  /\ dataEnd = -1
  /\ appendedOffsets = None
  /\ subscriptions = <<>>
  /\ idx = NoIndexLocals
  /\ timeIndex = None
  /\ dataMessageCounts = None
  /\ logMessageCount = None
  /\ dataTimeRange = None
  /\ it = NoIterator
  /\ probe = NoProbe

Init ==
  /\ \E data \in DataSeqs, cut \in 0..MaxCut :
       \E defs \in DefsChoices(16 + Len(RecsBytes(DefsBase)) + Len(RecsBytes(data))) :
         /\ Len(defs) - Len(DefsBase) + Len(data) <= MaxRecs
         /\ cut > 0 => (defs = DefsBase /\ data # <<>>)
         /\ recs = [defs |-> defs, data |-> data, cut |-> cut]
         /\ file = FileOf(defs \o data, cut)
  /\ Constructed

\* complete files without FlagBits, for the iteration
InitRead ==
  /\ \E data \in ReadSeqs :
       /\ recs = [defs |-> DefsBase, data |-> data, cut |-> 0]
       /\ file = FileOf(DefsBase \o data, 0)
  /\ Constructed

\* complete files without FlagBits, for an iteration after an abandoned one
InitAgain ==
  /\ \E data \in UNION { [1..n -> ReadCatalogue] : n \in 0..MaxAgainRecs } :
       /\ recs = [defs |-> DefsBase, data |-> data, cut |-> 0]
       /\ file = FileOf(DefsBase \o data, 0)
  /\ Constructed

engineVars == <<header, loc, dataEnd, appendedOffsets, subscriptions, idx, timeIndex,
                dataMessageCounts, logMessageCount, dataTimeRange>>

\* open(), up to the definitions loop: the file header
OpenStart ==
  /\ pc = "new"
  /\ LET Fail(r) ==
           /\ pc' = "failed"
           /\ reader' = r
           /\ loc' = loc
         Timestamp(data, timestamp) ==
           IF ~timestamp.ok THEN Fail(timestamp.rd)
           ELSE /\ pc' = "defs"
                /\ reader' = timestamp.rd
                /\ loc' = [NoLocals EXCEPT !.version = data.v[8], !.timestamp = timestamp.v]
         Magic(data) ==
           IF ~data.ok THEN Fail(data.rd)
           ELSE IF \E i \in 1..Len(MAGIC) : data.v[i] # MAGIC[i] THEN Fail(data.rd)
           ELSE Timestamp(data, readUint64(data.rd))
     IN Magic(readBytes(reader, 8))
  /\ UNCHANGED <<probe, file, recs, chunkSize, header, dataEnd, appendedOffsets, subscriptions,
                 idx, timeIndex, dataMessageCounts, logMessageCount, dataTimeRange, it>>

\* the array information.get(key) of an InformationMulti record, [] when the
\* entry is missing or is not an array
MultiArray(l, key) ==
  IF key \in DOMAIN l.information /\ l.information[key].k = "array"
  THEN l.information[key].v
  ELSE <<>>

\* the switch of the definitions loop: [ok, loc]
DispatchDefinition(l, message) ==
  LET Info(field, parsed) ==
        IF ~parsed.ok THEN [ok |-> FALSE, loc |-> l]
        ELSE [ok |-> TRUE,
              loc |-> [l EXCEPT !.information = (field.name :> parsed.val) @@ @]]
      InfoField(field) ==
        IF ~isValidInfoField(field) THEN [ok |-> TRUE, loc |-> l]
        ELSE Info(field, parseBasicFieldValue(field, message.value, 0))
      Multi(old, parsed) ==
        IF ~parsed.ok
        THEN [ok |-> FALSE,
              loc |-> [l EXCEPT !.information =
                         (message.key :> [k |-> "array", v |-> old]) @@ @]]
        ELSE [ok |-> TRUE,
              loc |-> [l EXCEPT !.information =
                         (message.key :> [k |-> "array", v |-> Append(old, parsed.val)]) @@ @]]
      MultiField(field) ==
        IF ~isValidInfoField(field) THEN [ok |-> TRUE, loc |-> l]
        ELSE Multi(MultiArray(l, message.key), parseBasicFieldValue(field, message.value, 0))
      Format(msgdef) ==
        IF ~msgdef.ok THEN [ok |-> FALSE, loc |-> l]
        ELSE [ok |-> TRUE, loc |-> [l EXCEPT !.definitions = (msgdef.name :> msgdef) @@ @]]
      Param(field, parsed, defaultTypes) ==
        IF ~parsed.ok THEN [ok |-> FALSE, loc |-> l]
        ELSE [ok |-> TRUE,
              loc |-> [l EXCEPT !.parameters =
                         (field.name :> [value |-> parsed.val,
                                         defaultTypes |-> defaultTypes]) @@ @]]
      ParamField(field, defaultTypes) ==
        IF ~isValidParameter(field) THEN [ok |-> TRUE, loc |-> l]
        ELSE Param(field, parseBasicFieldValue(field, message.value, 0), defaultTypes)
  IN CASE message.type = FlagBits ->
            [ok |-> TRUE, loc |-> [l EXCEPT !.flagBits = Some(message)]]
       [] message.type = Information -> InfoField(parseFieldDefinition(message.key))
       [] message.type = InformationMulti -> MultiField(parseFieldDefinition(message.key))
       [] message.type = FormatDefinition -> Format(parseMessageDefinition(message.format))
       [] message.type = Parameter -> ParamField(parseFieldDefinition(message.key), 0)
       [] message.type = ParameterDefault ->
            ParamField(parseFieldDefinition(message.key), message.defaultTypes)
       [] OTHER -> [ok |-> FALSE, loc |-> l]

\* one pass of the definitions loop that reads and dispatches a record
OpenDefinition ==
  /\ pc = "defs"
  /\ LET Dispatched(r, d) ==
           /\ pc' = IF d.ok THEN "defs" ELSE "failed"
           /\ reader' = r
           /\ loc' = d.loc
         Raw(raw) ==
           /\ raw.msg # NoMsg
           /\ Dispatched(raw.rd, DispatchDefinition(loc, raw.msg))
         Start(start) ==
           IF ~start.ok
           THEN /\ pc' = "failed"
                /\ reader' = start.rd
                /\ loc' = loc
           ELSE /\ ~start.v
                /\ Raw(readRawMessage(start.rd, dataEnd))
     IN Start(isDataSectionStart(reader))
  /\ UNCHANGED <<probe, file, recs, chunkSize, header, dataEnd, appendedOffsets, subscriptions,
                 idx, timeIndex, dataMessageCounts, logMessageCount, dataTimeRange, it>>

\* the definitions loop ends; open() sets #appendedOffsets, #dataEnd and
\* #header and enters #createIndex
OpenDefinitionsEnd ==
  /\ pc = "defs"
  /\ LET Offsets(r, numbers) ==
           /\ reader' = r
           /\ appendedOffsets' = Some(numbers)
           /\ dataEnd' = IF numbers[1] > 0 /\ numbers[1] < Size THEN numbers[1] ELSE Size
         End(r) ==
           Offsets(r, IF loc.flagBits.def
                      THEN [i \in 1..3 |-> ToNumber(loc.flagBits.v.appendedOffsets[i])]
                      ELSE << 0, 0, 0 >>)
         Raw(raw) ==
           /\ raw.msg = NoMsg
           /\ End(raw.rd)
         Start(start) ==
           /\ start.ok
           /\ IF start.v THEN End(start.rd) ELSE Raw(readRawMessage(start.rd, dataEnd))
     IN Start(isDataSectionStart(reader))
  /\ header' = [def |-> TRUE, version |-> loc.version, timestamp |-> loc.timestamp,
                flagBits |-> loc.flagBits, information |-> loc.information,
                parameters |-> loc.parameters, definitions |-> loc.definitions]
  /\ pc' = "index"
  /\ idx' = NoIndexLocals
  /\ UNCHANGED <<probe, file, recs, chunkSize, loc, subscriptions, timeIndex, dataMessageCounts,
                 logMessageCount, dataTimeRange, it>>

\* an update that keeps the first timestamp seen as the minimum
StampedFirstMin(ix, ts, offset) ==
  [ix EXCEPT
     !.minTimestamp = IF ~@.def THEN Some(ts) ELSE @,
     !.maxTimestamp = IF Lt64(@, ts) THEN ts ELSE @,
     !.timeIndex = Append(@, << ts, offset >>)]

\* the updates of minTimestamp and maxTimestamp by a time-stamped record
Stamped(ix, ts, offset) ==
  [ix EXCEPT
     !.minTimestamp = IF ~@.def \/ Lt64(ts, @.v) THEN Some(ts) ELSE @,
     !.maxTimestamp = IF Lt64(@, ts) THEN ts ELSE @,
     !.timeIndex = Append(@, << ts, offset >>)]

\* a loop body in which a record of another kind updates the minimum and the
\* maximum with the timestamp it is indexed with
IndexedAllStamped(ix, message, offset) ==
  IF message.type = Data
  THEN [Stamped(ix, message.timestamp, offset) EXCEPT
          !.dataCounts =
            (message.msgId :>
               (IF message.msgId \in DOMAIN @ THEN @[message.msgId] ELSE 0) + 1) @@ @]
  ELSE IF message.type = Log \/ message.type = LogTagged
  THEN [Stamped(ix, message.timestamp, offset) EXCEPT !.logMessageCount = @ + 1]
  ELSE Stamped(ix, ix.maxTimestamp, offset)

\* a loop body that takes a LogTagged record for a record of another kind
IndexedLogOnly(ix, message, offset) ==
  IF message.type = Data
  THEN [Stamped(ix, message.timestamp, offset) EXCEPT
          !.dataCounts =
            (message.msgId :>
               (IF message.msgId \in DOMAIN @ THEN @[message.msgId] ELSE 0) + 1) @@ @]
  ELSE IF message.type = Log
  THEN [Stamped(ix, message.timestamp, offset) EXCEPT !.logMessageCount = @ + 1]
  ELSE [ix EXCEPT !.timeIndex = Append(@, << ix.maxTimestamp, offset >>)]

\* the body of the loop of #createIndex for one record
Indexed(ix, message, offset) ==
  IF message.type = Data
  THEN [Stamped(ix, message.timestamp, offset) EXCEPT
          !.dataCounts =
            (message.msgId :>
               (IF message.msgId \in DOMAIN @ THEN @[message.msgId] ELSE 0) + 1) @@ @]
  ELSE IF message.type = Log \/ message.type = LogTagged
  THEN [Stamped(ix, message.timestamp, offset) EXCEPT !.logMessageCount = @ + 1]
  ELSE [ix EXCEPT !.timeIndex = Append(@, << ix.maxTimestamp, offset >>)]

\* one pass of the loop of #createIndex that reads a record
CreateIndexStep ==
  /\ pc = "index"
  /\ LET Read(offset, r) ==
           /\ ~r.ok \/ r.msg # NoMsg
           /\ reader' = r.rd
           /\ subscriptions' = r.subs
           /\ IF ~r.ok
              THEN /\ pc' = "failed"
                   /\ idx' = idx
              ELSE /\ pc' = "index"
                   /\ idx' = Indexed(idx, r.msg, offset)
     IN Read(position(reader), readParsedMessage(reader, subscriptions, header, dataEnd))
  /\ UNCHANGED <<probe, file, recs, chunkSize, header, loc, dataEnd, appendedOffsets, timeIndex,
                 dataMessageCounts, logMessageCount, dataTimeRange, it>>

\* the loop of #createIndex ends: the index is sorted and published
CreateIndexEnd ==
  /\ pc = "index"
  /\ LET Read(r) ==
           /\ r.ok
           /\ r.msg = NoMsg
           /\ reader' = r.rd
           /\ subscriptions' = r.subs
     IN Read(readParsedMessage(reader, subscriptions, header, dataEnd))
  /\ timeIndex' = Some(sort(idx.timeIndex))
  /\ dataMessageCounts' = Some(idx.dataCounts)
  /\ logMessageCount' = Some(idx.logMessageCount)
  /\ dataTimeRange' = IF idx.minTimestamp.def
                      THEN Some(<< idx.minTimestamp.v, idx.maxTimestamp >>)
                      ELSE None
  /\ pc' = "open"
  /\ UNCHANGED <<probe, file, recs, chunkSize, header, loc, dataEnd, appendedOffsets, idx, it>>

(***************************************************************************)
(* readMessages: the generator.  st is "new" until the first next(), then  *)
(* "running" between yields, and "done" or "error" at the end.  out lists, *)
(* for every record yielded so far, the index position it was read from.   *)
(***************************************************************************)
TimeOptions == { None } \union { Some(U64(t)) : t \in 0..(MaxTs + 1) }

\* the call readMessages(opts): nothing runs before the first next()
ReadMessages ==
  /\ pc = "open"
  /\ it.st = "none"
  /\ \E startTime \in TimeOptions, endTime \in TimeOptions :
       /\ it' = [st |-> "new", startTime |-> startTime, endTime |-> endTime,
                 entries |-> <<>>, i |-> 0, last |-> -1, out |-> <<>>]
  /\ UNCHANGED <<probe, file, recs, chunkSize, reader, pc, header, loc, dataEnd, appendedOffsets,
                 subscriptions, idx, timeIndex, dataMessageCounts, logMessageCount,
                 dataTimeRange>>

\* the for loop of readMessages from position i up to the next yield:
\* [st, i, rd, subs, msg]
RECURSIVE RunToYield(_, _, _, _, _)
RunToYield(entries, i, last, rd, subs) ==
  IF i > last THEN [st |-> "done", i |-> i, rd |-> rd, subs |-> subs, msg |-> NoMsg]
  ELSE LET Read(r) ==
             IF ~r.ok
             THEN [st |-> "error", i |-> i, rd |-> r.rd, subs |-> r.subs, msg |-> NoMsg]
             ELSE IF r.msg # NoMsg
             THEN [st |-> "running", i |-> i, rd |-> r.rd, subs |-> r.subs, msg |-> r.msg]
             ELSE RunToYield(entries, i + 1, last, r.rd, r.subs)
           Sought(sk) ==
             IF ~sk.ok
             THEN [st |-> "error", i |-> i, rd |-> sk.rd, subs |-> subs, msg |-> NoMsg]
             ELSE Read(readParsedMessage(sk.rd, subs, header, dataEnd))
       IN Sought(seekTo(rd, entries[i + 1][2]))

Yielded(i, msg) ==
  [i |-> i, type |-> msg.type,
   timestamp |-> IF msg.type \in {Data, Log, LogTagged} THEN msg.timestamp ELSE U64(0)]

\* the range of readMessages over a non-empty index
RangeOf(entries, startTime, endTime) ==
  findRange(entries,
            IF startTime.def THEN startTime.v ELSE entries[1][1],
            IF endTime.def THEN endTime.v ELSE entries[Len(entries)][1])

\* next() on the generator: runs the body up to the next yield or its end
ReadMessagesNext ==
  /\ it.st \in {"new", "running"}
  /\ LET Ran(entries, last, run) ==
           /\ it' = [it EXCEPT !.st = run.st, !.entries = entries, !.i = run.i,
                               !.last = last,
                               !.out = IF run.st = "running"
                                       THEN Append(@, Yielded(run.i, run.msg)) ELSE @]
           /\ reader' = run.rd
           /\ subscriptions' = run.subs
         Run(entries, from, last) ==
           Ran(entries, last, RunToYield(entries, from, last, reader, subscriptions))
         Ranged(entries, range) ==
           IF ~range.def
           THEN /\ it' = [it EXCEPT !.st = "done", !.entries = entries]
                /\ UNCHANGED <<reader, subscriptions>>
           ELSE Run(entries, range.v[1], range.v[2])
         Start(sortedMessages) ==
           IF ~sortedMessages.def
           THEN /\ it' = [it EXCEPT !.st = "error"]
                /\ UNCHANGED <<reader, subscriptions>>
           ELSE IF Len(sortedMessages.v) = 0
           THEN /\ it' = [it EXCEPT !.st = "done", !.entries = sortedMessages.v]
                /\ UNCHANGED <<reader, subscriptions>>
           ELSE Ranged(sortedMessages.v, RangeOf(sortedMessages.v, it.startTime, it.endTime))
     IN IF it.st = "new" THEN Start(timeIndex) ELSE Run(it.entries, it.i + 1, it.last)
  /\ UNCHANGED <<probe, file, recs, chunkSize, pc, header, loc, dataEnd, appendedOffsets, idx,
                 timeIndex, dataMessageCounts, logMessageCount, dataTimeRange>>

(***************************************************************************)
(* findRange alone, on every sorted index of up to MaxEntries entries with *)
(* timestamps 0..MaxTs and on every pair of bounds 0..MaxTs+1.  The engine *)
(* and the reader stay as constructed over an empty file; probe holds the  *)
(* arguments and, after the call, the result.                              *)
(***************************************************************************)
\* an engine that is constructed and never opened
Unopened ==
  /\ reader = NewReader(chunkSize)
  /\ pc = "new"
  /\ header = None
  /\ loc = NoLocals
  /\ dataEnd = -1
  /\ appendedOffsets = None
  /\ subscriptions = <<>>
  /\ idx = NoIndexLocals
  /\ timeIndex = None
  /\ dataMessageCounts = None
  /\ logMessageCount = None
  /\ dataTimeRange = None
  /\ it = NoIterator

\* the indexes sorted ascending by timestamp, entry k with offset k
SortedEntries ==
  UNION { { [k \in 1..n |-> << U64(ts[k]), k >>] :
              ts \in { t \in [1..n -> 0..MaxTs] :
                         \A k \in 1..(n - 1) : t[k] <= t[k + 1] } } :
          n \in 0..MaxEntries }

InitFind ==
  /\ file = <<>>
  /\ recs = [defs |-> <<>>, data |-> <<>>, cut |-> 0]
  /\ chunkSize = BigChunk
  /\ Unopened
  /\ \E entries \in SortedEntries, minValue \in 0..(MaxTs + 1), maxValue \in 0..(MaxTs + 1) :
       probe = [op |-> "findRange", called |-> FALSE, entries |-> entries,
                minValue |-> U64(minValue), maxValue |-> U64(maxValue), result |-> None]

\* the call findRange(entries, minValue, maxValue)
FindRange ==
  /\ probe.op = "findRange"
  /\ ~probe.called
  /\ probe' = [probe EXCEPT !.called = TRUE,
                            !.result = findRange(probe.entries, probe.minValue,
                                                 probe.maxValue)]
  /\ UNCHANGED <<file, recs, chunkSize, reader, pc, header, loc, dataEnd, appendedOffsets,
                 subscriptions, idx, timeIndex, dataMessageCounts, logMessageCount,
                 dataTimeRange, it>>

NextFind == FindRange

SpecFind == InitFind /\ [][NextFind]_vars

(***************************************************************************)
(* A ChunkedReader alone.  A caller applies every operation, in any order, *)
(* to the reader over file and, in step with it, to a second reader over   *)
(* the same file whose chunkSize is not smaller than the file.  probe      *)
(* holds the last call: the operation, its argument, position() before it  *)
(* (pos) and, of a peekUint8 call, the reader before it, whether the call  *)
(* returned (ok) and what (v), the same for the second                     *)
(* reader (big, bigOk, bigV), whether all calls so far were typed reads,    *)
(* whether a readString call has been given a negative length so far, and  *)
(* how many calls were made after it (at most MaxAfter).                   *)
(***************************************************************************)
\* the typed reads of a ChunkedReader
TypedReads ==
  { "readUint8", "readInt16", "readUint16", "readInt32", "readUint32", "readFloat32",
    "readFloat64", "readInt64", "readUint64", "readBytes", "readString" }

\* the file of n bytes whose byte k is 67 * k modulo 256
RECURSIVE ReaderFile(_)
ReaderFile(n) == IF n = 0 THEN <<>> ELSE Append(ReaderFile(n - 1), (n * 67) % 256)

ReaderFiles == { ReaderFile(n) : n \in {0, 1, MaxFileLen} }

ReaderChunkSizes == (1..SmallChunk) \union {BigChunk}

InitReader ==
  /\ file \in ReaderFiles
  /\ recs = [defs |-> <<>>, data |-> <<>>, cut |-> 0]
  /\ chunkSize \in ReaderChunkSizes
  /\ Unopened
  /\ probe = [op |-> "new", arg |-> 0, pos |-> 0, before |-> NewReader(chunkSize),
              ok |-> TRUE, v |-> 0,
              big |-> NewReader(BigChunk), bigOk |-> TRUE, bigV |-> 0,
              typed |-> TRUE, negative |-> FALSE, after |-> 0]

\* the caller may make a call
Calling ==
  /\ probe.op \notin {"none", "findRange", "abandoned"}
  /\ probe.after < MaxAfter

\* the call op(arg) has ended as r on the reader and as b on the second one
Called(op, arg, r, b) ==
  /\ reader' = r.rd
  /\ probe' = [op |-> op, arg |-> arg, pos |-> position(reader),
               before |-> IF op = "peekUint8" THEN reader ELSE NewReader(chunkSize),
               ok |-> r.ok, v |-> r.v,
               big |-> b.rd, bigOk |-> b.ok, bigV |-> b.v,
               typed |-> probe.typed /\ op \in TypedReads,
               negative |-> probe.negative \/ (op = "readString" /\ arg < 0),
               after |-> IF probe.negative THEN probe.after + 1 ELSE 0]
  /\ UNCHANGED <<file, recs, chunkSize, pc, header, loc, dataEnd, appendedOffsets,
                 subscriptions, idx, timeIndex, dataMessageCounts, logMessageCount,
                 dataTimeRange, it>>

SeekCall ==
  /\ Calling
  /\ \E relative \in (0 - MaxCount)..MaxCount :
       Called("seek", relative, seek(reader, relative) @@ [v |-> 0],
              seek(probe.big, relative) @@ [v |-> 0])

SeekToCall ==
  /\ Calling
  /\ \E byteOffset \in (0 - 1)..(Size + 1) :
       Called("seekTo", byteOffset, seekTo(reader, byteOffset) @@ [v |-> 0],
              seekTo(probe.big, byteOffset) @@ [v |-> 0])

SkipCall ==
  /\ Calling
  /\ \E count \in (0 - 1)..MaxCount :
       Called("skip", count, skip(reader, count), skip(probe.big, count))

PeekUint8Call ==
  /\ Calling
  /\ \E offset \in 0..MaxCount :
       Called("peekUint8", offset, peekUint8(reader, offset), peekUint8(probe.big, offset))

ReadBytesCall ==
  /\ Calling
  /\ \E count \in (0 - 1)..MaxCount :
       Called("readBytes", count, readBytes(reader, count), readBytes(probe.big, count))

ReadStringCall ==
  /\ Calling
  /\ \E length \in (0 - 1)..MaxCount :
       Called("readString", length, readString(reader, length),
              readString(probe.big, length))

ReadUint8Call ==
  /\ Calling
  /\ Called("readUint8", 0, readUint8(reader), readUint8(probe.big))

ReadInt16Call ==
  /\ Calling
  /\ Called("readInt16", 0, readInt16(reader), readInt16(probe.big))

ReadUint16Call ==
  /\ Calling
  /\ Called("readUint16", 0, readUint16(reader), readUint16(probe.big))

ReadInt32Call ==
  /\ Calling
  /\ Called("readInt32", 0, readInt32(reader), readInt32(probe.big))

ReadUint32Call ==
  /\ Calling
  /\ Called("readUint32", 0, readUint32(reader), readUint32(probe.big))

ReadFloat32Call ==
  /\ Calling
  /\ Called("readFloat32", 0, readFloat32(reader), readFloat32(probe.big))

ReadFloat64Call ==
  /\ Calling
  /\ Called("readFloat64", 0, readFloat64(reader), readFloat64(probe.big))

ReadInt64Call ==
  /\ Calling
  /\ Called("readInt64", 0, readInt64(reader), readInt64(probe.big))

ReadUint64Call ==
  /\ Calling
  /\ Called("readUint64", 0, readUint64(reader), readUint64(probe.big))

NextReader ==
  \/ SeekCall
  \/ SeekToCall
  \/ SkipCall
  \/ PeekUint8Call
  \/ ReadBytesCall
  \/ ReadStringCall
  \/ ReadUint8Call
  \/ ReadInt16Call
  \/ ReadUint16Call
  \/ ReadInt32Call
  \/ ReadUint32Call
  \/ ReadFloat32Call
  \/ ReadFloat64Call
  \/ ReadInt64Call
  \/ ReadUint64Call

SpecReader == InitReader /\ [][NextReader]_vars

(***************************************************************************)
(* parse.ts alone.  A caller holds a definitions table, built from format  *)
(* strings as open() builds header.definitions, and applies messageSize    *)
(* and parseMessage to the definition named t over a DataView.  probe      *)
(* holds the table, the view, the offset and, after a call, its result.    *)
(***************************************************************************)
MaxFields == 3    \* fields of the definition given to parse.ts alone
MaxView == 24     \* bytes of the DataView given to parse.ts alone

NameT == << 116 >>

\* a field string "type name" or "type[n] name"
FieldString(type, n, name) ==
  type \o (IF n < 0 THEN <<>> ELSE << ChLBracket, 48 + n, ChRBracket >>)
       \o << ChSpace >> \o name

\* the nested definition n: a timestamp and an array of two bytes
FmtNested ==
  NameN \o << ChColon >> \o FieldString(S_uint64_t, -1, S_timestamp) \o << ChSemi >>
        \o FieldString(S_uint8_t, 2, << 98 >>)

NameK == << 107 >>

\* the nested definition k: one byte and no timestamp
FmtPlain == NameK \o << ChColon >> \o FieldString(S_uint8_t, -1, << 121 >>)

FieldStrings ==
  { FieldString(S_uint64_t, -1, S_timestamp),
    FieldString(S_int64_t, -1, S_timestamp),
    FieldString(S_uint8_t, -1, << 120 >>),
    FieldString(S_uint16_t, 2, << 97 >>),
    FieldString(S_char, 3, << 115 >>),
    FieldString(S_uint8_t, -1, << ChUnderscore, 112 >>),
    FieldString(S_uint8_t, 2, << ChUnderscore, 113 >>),
    FieldString(NameN, -1, << 99 >>),
    FieldString(NameN, 2, << 100 >>),
    FieldString(NameZ, -1, << 117 >>),
    FieldString(NameK, -1, << 101 >>),
    FieldString(NameK, 2, << 102 >>),
    FieldString(NameT, -1, << 118 >>) }

\* the name of the field a field string declares
FieldName(fieldString) == Split(fieldString, ChSpace)[2]

\* the format strings "t:f1;f2;..." of up to MaxFields fields of distinct names
RECURSIVE JoinFields(_)
JoinFields(fs) ==
  IF fs = <<>> THEN <<>>
  ELSE Head(fs) \o << ChSemi >> \o JoinFields(Tail(fs))

TopFormats ==
  { NameT \o << ChColon >> \o JoinFields(fs) :
      fs \in UNION { { g \in [1..k -> FieldStrings] :
                         \A i, j \in 1..k : i # j => FieldName(g[i]) # FieldName(g[j]) } :
                     k \in 1..MaxFields } }

\* header.definitions after the FormatDefinition records of these formats
RECURSIVE DefinitionsOf(_)
DefinitionsOf(formats) ==
  IF formats = <<>> THEN <<>>
  ELSE LET Set(msgdef, rest) == IF msgdef.ok THEN (msgdef.name :> msgdef) @@ rest ELSE rest
       IN Set(parseMessageDefinition(formats[Len(formats)]),
              DefinitionsOf(SubSeq(formats, 1, Len(formats) - 1)))

\* the view of n bytes whose byte k (from 0) is 3 * k + 1
ViewOf(n) == [k \in 1..n |-> 3 * (k - 1) + 1]

InitParse ==
  /\ file = <<>>
  /\ recs = [defs |-> <<>>, data |-> <<>>, cut |-> 0]
  /\ chunkSize = BigChunk
  /\ Unopened
  /\ \E format \in TopFormats, offset \in {0, 2}, n \in {MaxView \div 2, MaxView} :
       probe = [op |-> "parse", called |-> "none",
                definitions |-> DefinitionsOf(<< FmtNested, FmtPlain, format >>),
                view |-> ViewOf(n), offset |-> offset,
                size |-> 0, value |-> BadValue]

\* the call messageSize(definitions.get("t"), definitions)
MessageSizeCall ==
  /\ probe.op = "parse"
  /\ probe.called = "none"
  /\ probe' = [probe EXCEPT !.called = "messageSize",
                            !.size = messageSize(probe.definitions[NameT],
                                                 probe.definitions)]
  /\ UNCHANGED <<file, recs, chunkSize, reader, pc, header, loc, dataEnd, appendedOffsets,
                 subscriptions, idx, timeIndex, dataMessageCounts, logMessageCount,
                 dataTimeRange, it>>

\* the call parseMessage(definitions.get("t"), definitions, view, offset)
ParseMessageCall ==
  /\ probe.op = "parse"
  /\ probe.called = "none"
  /\ probe' = [probe EXCEPT !.called = "parseMessage",
                            !.value = parseMessage(probe.definitions[NameT],
                                                   probe.definitions, probe.view,
                                                   probe.offset)]
  /\ UNCHANGED <<file, recs, chunkSize, reader, pc, header, loc, dataEnd, appendedOffsets,
                 subscriptions, idx, timeIndex, dataMessageCounts, logMessageCount,
                 dataTimeRange, it>>

NextParse ==
  \/ MessageSizeCall
  \/ ParseMessageCall

SpecParse == InitParse /\ [][NextParse]_vars

(***************************************************************************)
(* The recursion of parse.ts, one call at a time.  probe.stack holds the   *)
(* calls of messageSize and parseMessage that have not returned, the       *)
(* innermost last; fieldSize and parseFieldValue run inside the frame of   *)
(* their caller.  A frame holds the definition, the index i of the field   *)
(* the loop stands at, the sum so far (acc), curOffset (off), and for      *)
(* parseMessage where the field stands: "value" before parseFieldValue,    *)
(* "asize" and "elems" inside its array branch, "size" before fieldSize.   *)
(* probe.memo holds Field.size of the fields that have one.  The values    *)
(* parsed are not kept, only whether output.timestamp is a bigint (ts).    *)
(* The engine ends a recursion of more than MaxStack frames with a         *)
(* RangeError (call stack exhausted); MaxStack is more than the frames a   *)
(* recursion needs that reads a byte of the view in every frame.           *)
(***************************************************************************)
MaxStack == MaxView + 4 \* frames the call stack of the engine holds
MaxResolveFields == 2   \* fields of the definition t

NameR == << 114 >>

\* the definition r, which refers back to t: 'r:t u'
FmtBack == NameR \o << ChColon >> \o FieldString(NameT, -1, << 117 >>)

ResolveFieldStrings ==
  { FieldString(S_uint64_t, -1, S_timestamp),
    FieldString(S_uint8_t, -1, << 120 >>),
    FieldString(S_uint8_t, -1, << ChUnderscore, 112 >>),
    FieldString(NameN, -1, << 99 >>),
    FieldString(NameN, 2, << 100 >>),
    FieldString(NameZ, -1, << 122 >>),
    FieldString(NameT, -1, << 118 >>),
    FieldString(NameT, 2, << 97 >>),
    FieldString(NameR, -1, << 119 >>) }

ResolveFormats ==
  { NameT \o << ChColon >> \o JoinFields(fs) :
      fs \in UNION { { g \in [1..k -> ResolveFieldStrings] :
                         \A i, j \in 1..k : i # j => FieldName(g[i]) # FieldName(g[j]) } :
                     k \in 1..MaxResolveFields } }

NoResult == [st |-> "none"]

InitResolve ==
  /\ file = <<>>
  /\ recs = [defs |-> <<>>, data |-> <<>>, cut |-> 0]
  /\ chunkSize = BigChunk
  /\ Unopened
  /\ \E format \in ResolveFormats :
       probe = [op |-> "resolve", called |-> "none",
                definitions |-> DefinitionsOf(<< FmtNested, FmtBack, format >>),
                view |-> ViewOf(MaxView),
                stack |-> <<>>, memo |-> <<>>, result |-> NoResult]

\* the frame of a call messageSize(definitions.get(type), definitions)
SizeFrame(type) ==
  [fn |-> "messageSize", type |-> type, i |-> 1, acc |-> 0,
   off |-> 0, ph |-> "value", e |-> 0, sz |-> 0, ts |-> FALSE]

\* the frame of a call parseMessage(definitions.get(type), definitions, view, offset)
ParseFrame(type, offset) ==
  [fn |-> "parseMessage", type |-> type, i |-> 1, acc |-> 0,
   off |-> offset, ph |-> "value", e |-> 0, sz |-> 0, ts |-> FALSE]

Top(p) == p.stack[Len(p.stack)]


\* a thrown error unwinds every frame: none of the functions catches
Unwound(p, error) ==
  [p EXCEPT !.stack = <<>>, !.result = [st |-> "thrown", error |-> error]]

\* a call made by the innermost frame
Enter(p, frame) ==
  IF Len(p.stack) >= MaxStack THEN Unwound(p, "StackOverflow")
  ELSE [p EXCEPT !.stack = p.stack \o << frame >>]

\* the innermost frame goes on without a call
GoesOn(p, frame) == [p EXCEPT !.stack = SubSeq(p.stack, 1, Len(p.stack) - 1) \o << frame >>]

ArrayLength(field) == IF field.isArray THEN field.arrayLength ELSE 1

\* the caller c takes the size v that fieldSize(field) returns to it
SizeTaken(c, field, v) ==
  IF c.fn = "messageSize" THEN [c EXCEPT !.acc = c.acc + v, !.i = c.i + 1]
  ELSE IF c.ph = "asize" THEN [c EXCEPT !.sz = v, !.e = 0, !.ph = "elems"]
  ELSE [c EXCEPT !.off = c.off + v * ArrayLength(field), !.i = c.i + 1, !.ph = "value"]

\* fieldSize(field, definitions) called by the innermost frame c
FieldSizeStep(p, c, field) ==
  LET key == << c.type, c.i >>
      Set(v) == [GoesOn(p, SizeTaken(c, field, v)) EXCEPT !.memo = (key :> v) @@ p.memo]
  IN IF key \in DOMAIN p.memo THEN GoesOn(p, SizeTaken(c, field, p.memo[key]))
     ELSE IF field.isComplex
     THEN IF field.type \notin DOMAIN p.definitions THEN Unwound(p, "Error")
          ELSE Enter(p, SizeFrame(field.type))
     ELSE Set(BASIC_SIZES(field.type))

\* messageSize returns v: field.size = v in fieldSize, which returns it
SizeReturned(p, v) ==
  IF Len(p.stack) = 1
  THEN [p EXCEPT !.stack = <<>>, !.result = [st |-> "returned", size |-> v]]
  ELSE LET c == p.stack[Len(p.stack) - 1]
           fields == p.definitions[c.type].fields
       IN [p EXCEPT !.stack = SubSeq(p.stack, 1, Len(p.stack) - 2)
                               \o << SizeTaken(c, fields[c.i], v) >>,
                    !.memo = (<< c.type, c.i >> :> v) @@ p.memo]

\* parseMessage returns its output to parseFieldValue, or to the caller
ParseReturned(p) ==
  IF Len(p.stack) = 1
  THEN [p EXCEPT !.stack = <<>>, !.result = [st |-> "returned", size |-> 0]]
  ELSE LET c == p.stack[Len(p.stack) - 1]
       IN [p EXCEPT !.stack = SubSeq(p.stack, 1, Len(p.stack) - 2)
                               \o << IF c.ph = "elems" THEN [c EXCEPT !.e = c.e + 1]
                                     ELSE [c EXCEPT !.ph = "size"] >>]

\* parseFieldValue(field, definitions, view, curOffset) up to its first call
FieldValueStep(p, c, field) ==
  IF field.isComplex
  THEN IF field.type \notin DOMAIN p.definitions THEN Unwound(p, "Error")
       ELSE IF field.isArray THEN GoesOn(p, [c EXCEPT !.ph = "asize"])
       ELSE Enter(p, ParseFrame(field.type, c.off))
  ELSE LET Parsed(pv) ==
             IF ~pv.ok THEN Unwound(p, "RangeError")
             ELSE GoesOn(p, [c EXCEPT !.ph = "size",
                                       !.ts = c.ts \/ (field.name = S_timestamp
                                                        /\ pv.val.k = "bigint")])
       IN Parsed(parseBasicFieldValue(field, p.view, c.off))

\* one step of the innermost call
Step(p) ==
  LET c == Top(p)
      fields == p.definitions[c.type].fields
  IN IF c.fn = "messageSize"
     THEN IF c.i > Len(fields) THEN SizeReturned(p, c.acc)
          ELSE FieldSizeStep(p, c, fields[c.i])
     ELSE IF c.i > Len(fields)
     THEN IF c.ts THEN ParseReturned(p) ELSE Unwound(p, "Error")
     ELSE IF c.ph = "value"
     THEN IF IsPadding(fields[c.i].name) THEN GoesOn(p, [c EXCEPT !.i = c.i + 1])
          ELSE FieldValueStep(p, c, fields[c.i])
     ELSE IF c.ph = "elems"
     THEN IF c.e < fields[c.i].arrayLength
          THEN Enter(p, ParseFrame(fields[c.i].type, c.off + c.e * c.sz))
          ELSE GoesOn(p, [c EXCEPT !.ph = "size"])
     ELSE FieldSizeStep(p, c, fields[c.i])

\* the call messageSize(definitions.get("t"), definitions)
ResolveSizeCall ==
  /\ probe.op = "resolve"
  /\ probe.called = "none"
  /\ probe' = [probe EXCEPT !.called = "messageSize", !.stack = << SizeFrame(NameT) >>]
  /\ UNCHANGED <<file, recs, chunkSize, reader, pc, header, loc, dataEnd, appendedOffsets,
                 subscriptions, idx, timeIndex, dataMessageCounts, logMessageCount,
                 dataTimeRange, it>>

\* the call parseMessage(definitions.get("t"), definitions, view)
ResolveParseCall ==
  /\ probe.op = "resolve"
  /\ probe.called = "none"
  /\ probe' = [probe EXCEPT !.called = "parseMessage", !.stack = << ParseFrame(NameT, 0) >>]
  /\ UNCHANGED <<file, recs, chunkSize, reader, pc, header, loc, dataEnd, appendedOffsets,
                 subscriptions, idx, timeIndex, dataMessageCounts, logMessageCount,
                 dataTimeRange, it>>

ResolveStep ==
  /\ probe.op = "resolve"
  /\ probe.stack # <<>>
  /\ probe' = Step(probe)
  /\ UNCHANGED <<file, recs, chunkSize, reader, pc, header, loc, dataEnd, appendedOffsets,
                 subscriptions, idx, timeIndex, dataMessageCounts, logMessageCount,
                 dataTimeRange, it>>

NextResolve ==
  \/ ResolveSizeCall
  \/ ResolveParseCall
  \/ ResolveStep

SpecResolve == InitResolve /\ [][NextResolve]_vars

(***************************************************************************)
(* definition.ts alone.  A caller applies parseMessageDefinition to a      *)
(* format string "name:piece;piece;..."; probe holds the string and,       *)
(* after the call, the result.                                             *)
(***************************************************************************)
MaxPieces == 3    \* pieces between ';' of a format given to definition.ts alone

\* the pieces: well-formed fields, empty fields, and malformed fields
Pieces ==
  { <<>>,
    << ChSpace >>,
    FieldString(S_uint8_t, -1, << 120 >>),
    << ChSpace >> \o FieldString(S_uint64_t, -1, S_timestamp) \o << ChSpace >>,
    FieldString(S_uint8_t, 2, << 97 >>),
    FieldString(NameN, -1, << 99 >>),
    FieldString(S_uint8_t, 0, << 97 >>),
    S_uint8_t \o << ChLBracket, ChRBracket, ChSpace, 120 >>,
    S_uint8_t \o << ChLBracket, 97, ChRBracket, ChSpace, 120 >>,
    S_uint8_t,
    << ChLBracket, 50, ChRBracket, ChSpace, 120 >> }

RECURSIVE JoinPieces(_)
JoinPieces(ps) ==
  IF ps = <<>> THEN <<>>
  ELSE IF Len(ps) = 1 THEN ps[1]
  ELSE Head(ps) \o << ChSemi >> \o JoinPieces(Tail(ps))

Formats ==
  { name \o << ChColon >> \o JoinPieces(ps) :
      name \in { <<>>, NameM },
      ps \in UNION { [1..k -> Pieces] : k \in 0..MaxPieces } }

InitDefinition ==
  /\ file = <<>>
  /\ recs = [defs |-> <<>>, data |-> <<>>, cut |-> 0]
  /\ chunkSize = BigChunk
  /\ Unopened
  /\ \E format \in Formats :
       probe = [op |-> "definition", called |-> FALSE, format |-> format,
                result |-> NoDefinition]

\* the call parseMessageDefinition(format)
ParseMessageDefinitionCall ==
  /\ probe.op = "definition"
  /\ ~probe.called
  /\ probe' = [probe EXCEPT !.called = TRUE,
                            !.result = parseMessageDefinition(probe.format)]
  /\ UNCHANGED <<file, recs, chunkSize, reader, pc, header, loc, dataEnd, appendedOffsets,
                 subscriptions, idx, timeIndex, dataMessageCounts, logMessageCount,
                 dataTimeRange, it>>

NextDefinition == ParseMessageDefinitionCall

SpecDefinition == InitDefinition /\ [][NextDefinition]_vars

\* the caller drops an iterator it has not run to its end: nothing of the
\* engine changes, and readMessages may be called again
Abandon ==
  /\ it.st \in {"new", "running"}
  /\ probe = NoProbe
  /\ probe' = [op |-> "abandoned", yielded |-> Len(it.out)]
  /\ it' = NoIterator
  /\ UNCHANGED <<file, recs, chunkSize, reader, pc, header, loc, dataEnd, appendedOffsets,
                 subscriptions, idx, timeIndex, dataMessageCounts, logMessageCount,
                 dataTimeRange>>

\* the call readMessages(opts) on an engine that open() has not opened
ReadMessagesEarly ==
  /\ pc # "open"
  /\ it.st = "none"
  /\ \E startTime \in {None, Some(U64(1))} :
       /\ it' = [st |-> "new", startTime |-> startTime, endTime |-> None,
                 entries |-> <<>>, i |-> 0, last |-> -1, out |-> <<>>]
  /\ UNCHANGED <<probe, file, recs, chunkSize, reader, pc, header, loc, dataEnd, appendedOffsets,
                 subscriptions, idx, timeIndex, dataMessageCounts, logMessageCount,
                 dataTimeRange>>

\* an accessor that counts the entries the indexing pass has collected so far
messageCountOfLoop ==
  IF timeIndex.def THEN Some(Len(timeIndex.v)) ELSE Some(Len(idx.timeIndex))

\* the accessors of the counts: undefined before open() has built the index
messageCount == IF timeIndex.def THEN Some(Len(timeIndex.v)) ELSE None

logCount == logMessageCount

timeRange == dataTimeRange

\* open() over every input file
Next ==
  \/ OpenStart
  \/ OpenDefinition
  \/ OpenDefinitionsEnd
  \/ CreateIndexStep
  \/ CreateIndexEnd

Spec == Init /\ [][Next]_vars

(***************************************************************************)
(* open() over files whose 16-byte header varies: one of its first eight   *)
(* bytes replaced, the file cut inside or right after the header, or       *)
(* another version and timestamp.                                          *)
(***************************************************************************)
MaxVersion == 2   \* versions and start timestamps of the varied headers

\* a header with the magic, version v and start timestamp t
HeaderOf(v, t) == << 85, 76, 111, 103, 1, 18, 53, v >> \o U64ToBytes(U64(t))

\* s with byte i (from 1) replaced by b
Replaced(s, i, b) == [k \in 1..Len(s) |-> IF k = i THEN b ELSE s[k]]

HeaderFiles ==
  LET Full(v, t) == HeaderOf(v, t) \o RecsBytes(DefsBase \o << RecData(0, 1) >>)
      Bound(v, t) == HeaderOf(v, t)
                       \o RecsBytes(DefsBase \o << RecAddLogged(0, 0, NameM), RecData(0, 1) >>)
  IN { Full(v, t) : v \in 0..MaxVersion, t \in 0..MaxVersion }
     \union { Bound(v, t) : v \in 0..MaxVersion, t \in 0..MaxVersion }
     \union { Replaced(Bound(1, 5), i, b) : i \in 1..8, b \in {0, 53, 255} }
     \union { SubSeq(Bound(1, 5), 1, n) : n \in 0..17 }
     \union { SubSeq(Replaced(Bound(1, 5), i, 0), 1, n) : i \in 1..7, n \in {7, 8, 16} }

InitHeader ==
  /\ file \in HeaderFiles
  /\ recs = [defs |-> <<>>, data |-> <<>>, cut |-> 0]
  /\ Constructed

SpecHeader == InitHeader /\ [][Next]_vars

(***************************************************************************)
(* open() over files that declare the nested format n and a format t of up *)
(* to MaxFormatFields fields, bind msg_id 0 to t, and hold one Data record *)
(* of msg_id 0, whose body has MaxBody bytes or fewer, followed by a Log   *)
(* or a RemoveLogged record.                                               *)
(***************************************************************************)
MaxFormatFields == 2  \* fields of the format t of a file
MaxBody == 11         \* bytes of the body of its Data record

FileFormats ==
  { NameT \o << ChColon >> \o JoinFields(fs) :
      fs \in UNION { { g \in [1..k -> FieldStrings] :
                         \A i, j \in 1..k : i # j => FieldName(g[i]) # FieldName(g[j]) } :
                     k \in 1..MaxFormatFields } }

\* a Data record of msg_id 0 with the given body
RecDataOf(body) == Rec(Data, 2 + Len(body), U16Bytes(0) \o body)

\* the bodies: bytes 1, 4, 7, ... and eight bytes FF
Bodies == { ViewOf(MaxBody - 3), ViewOf(MaxBody), [k \in 1..8 |-> 255] }

InitFormats ==
  /\ \E format \in FileFormats, body \in Bodies,
        last \in { RecLog(MaxTs), RecRemoveLogged(0) } :
       /\ recs = [defs |-> << RecFormat(FmtNested), RecFormat(format) >>,
                  data |-> << RecAddLogged(0, 0, NameT), RecDataOf(body), last >>,
                  cut |-> 0]
       /\ file = FileOf(recs.defs \o recs.data, 0)
  /\ Constructed

SpecFormats == InitFormats /\ [][Next]_vars

(***************************************************************************)
(* open() over complete files whose records carry more payload than their  *)
(* decoder reads: a FlagBits record of 41 bytes, RemoveLogged records of 3 *)
(* bytes, Dropout records of 4 bytes, besides records of the minimal size  *)
(* and records of an unknown tag.                                          *)
(***************************************************************************)
MaxFramed == 3    \* Data-section records of these files

RecDropout(size) == Rec(Dropout, size, SubSeq(<< 10, 0, 7, 7 >>, 1, size))

\* a FlagBits record without flags and appended offsets, of 40 bytes or more
RecFlagBitsOf(size) == Rec(FlagBits, size, [k \in 1..size |-> 0])

FramedCatalogue ==
  { RecAddLogged(0, 0, NameM), RecData(0, 1), RecLog(MaxTs),
    RecRemoveLogged(0), Rec(RemoveLogged, 3, << 0, 7, 7 >>),
    RecDropout(2), RecDropout(4),
    Rec(90, 1, << 7 >>) }

InitFraming ==
  /\ \E data \in UNION { [1..n -> FramedCatalogue] : n \in 0..MaxFramed },
        defs \in { DefsBase, << RecFlagBitsOf(40) >> \o DefsBase,
                   << RecFlagBitsOf(41) >> \o DefsBase } :
       /\ recs = [defs |-> defs, data |-> data, cut |-> 0]
       /\ file = FileOf(defs \o data, 0)
  /\ Constructed

SpecFraming == InitFraming /\ [][Next]_vars

\* open() followed by a readMessages iteration
NextRead ==
  \/ OpenStart
  \/ OpenDefinition
  \/ OpenDefinitionsEnd
  \/ CreateIndexStep
  \/ CreateIndexEnd
  \/ ReadMessages
  \/ ReadMessagesNext

SpecRead == InitRead /\ [][NextRead]_vars

\* open() followed by readMessages iterations, the first of which may be
\* abandoned
NextAgain ==
  \/ OpenStart
  \/ OpenDefinition
  \/ OpenDefinitionsEnd
  \/ CreateIndexStep
  \/ CreateIndexEnd
  \/ ReadMessages
  \/ ReadMessagesNext
  \/ Abandon

SpecAgain == InitAgain /\ [][NextAgain]_vars

(***************************************************************************)
(* open() followed by one readMessages iteration whose options object      *)
(* carries reverse: true beside the two time bounds.  readMessages reads   *)
(* opts.startTime and opts.endTime and no other property of opts; probe    *)
(* remembers that the call carried the property.                           *)
(***************************************************************************)
\* the call readMessages({startTime, endTime, reverse: true})
ReadMessagesReverse ==
  /\ pc = "open"
  /\ it.st = "none"
  /\ probe = NoProbe
  /\ probe' = [op |-> "reverse"]
  /\ \E startTime \in TimeOptions, endTime \in TimeOptions :
       /\ it' = [st |-> "new", startTime |-> startTime, endTime |-> endTime,
                 entries |-> <<>>, i |-> 0, last |-> -1, out |-> <<>>]
  /\ UNCHANGED <<file, recs, chunkSize, reader, pc, header, loc, dataEnd, appendedOffsets,
                 subscriptions, idx, timeIndex, dataMessageCounts, logMessageCount,
                 dataTimeRange>>

NextReverse ==
  \/ OpenStart
  \/ OpenDefinition
  \/ OpenDefinitionsEnd
  \/ CreateIndexStep
  \/ CreateIndexEnd
  \/ ReadMessagesReverse
  \/ ReadMessagesNext

SpecReverse == InitAgain /\ [][NextReverse]_vars

(***************************************************************************)
(* Two readMessages iterators on one engine whose steps overlap.  A step   *)
(* (one next() of the generator) runs without interruption up to a         *)
(* this.#file.read of ChunkedReader.#fetch, where it is suspended until    *)
(* the read resolves; while it is suspended the other iterator may run.    *)
(* The read was issued with the offset and the length computed before the  *)
(* suspension; everything after the await reads the fields of the shared   *)
(* reader as they are when the step resumes.  probe holds the two          *)
(* iterators:                                                              *)
(*   st       "new", "idle" (suspended at a yield), "await1" (the read of  *)
(*            an empty or exhausted chunk), "await2" (the read that        *)
(*            extends the chunk), "done", "error"                          *)
(*   i, last  the index position of the loop and the end of the range      *)
(*   hdr      the record header is being read; t, s its type and size      *)
(*   n        reader calls completed by the current decoder                *)
(*   got      the bytes the reader calls of this record have returned      *)
(*   w        bytesRequired of the call in progress                        *)
(*   req      the offset and length of the read awaited                    *)
(*   cur      curChunk of #fetch                                           *)
(*   dataOff  byteOffset of the data view of a Data record                 *)
(*   out      for every record yielded, its index position and its bytes   *)
(* and overlapped, whether a step was ever started while the other         *)
(* iterator was suspended at a read.                                       *)
(***************************************************************************)
MaxTwoRecs == 2   \* Data-section records of a file read by two iterators

NewIterator ==
  [st |-> "new", i |-> 0, last |-> -1, hdr |-> TRUE, t |-> 0, s |-> 0, n |-> 0,
   got |-> <<>>, w |-> 0, req |-> <<0, 0>>, cur |-> <<>>, dataOff |-> 0, out |-> <<>>]

InitTwo ==
  /\ \E data \in UNION { [1..n -> ReadCatalogue] : n \in 0..MaxTwoRecs } :
       /\ recs = [defs |-> DefsBase, data |-> data, cut |-> 0]
       /\ file = FileOf(DefsBase \o data, 0)
  /\ Constructed

\* what a decoder does next: a reader call of w bytes, a throw or a return
Call(w) == [k |-> "call", w |-> w]

Throw == [k |-> "throw", w |-> 0]

Return == [k |-> "return", w |-> 0]

\* readMessageHeader after n reader calls
HeaderCall(n) == IF n = 0 THEN Call(2) ELSE IF n = 1 THEN Call(1) ELSE Return

\* the decoder of a record of type t and size s after n reader calls that
\* returned the payload bytes p
DecoderCall(t, s, n, p) ==
  LET KeyAt(k, least) ==
        IF n < k THEN Call(1)
        ELSE IF p[k] > s - least THEN Throw
        ELSE IF n = k THEN Call(p[k])
        ELSE IF n = k + 1 THEN Call(s - k - p[k])
        ELSE Return
      Fixed(least, widths) ==
        IF s < least THEN Throw
        ELSE IF n < Len(widths) THEN Call(widths[n + 1])
        ELSE Return
  IN CASE t = FlagBits ->
            IF s < 40 THEN Throw
            ELSE IF n < 2 THEN Call(8)
            ELSE IF p[9] > 1 \/ \E i \in 10..16 : p[i] # 0 THEN Throw
            ELSE IF n < 5 THEN Call(8)
            ELSE Return
       [] t \in {Information, Parameter} -> KeyAt(1, 1)
       [] t = InformationMulti -> KeyAt(2, 1)
       [] t = ParameterDefault -> KeyAt(2, 2)
       [] t = FormatDefinition -> Fixed(0, <<s>>)
       [] t = AddLogged -> Fixed(3, <<1, 2, s - 3>>)
       [] t = RemoveLogged -> Fixed(1, <<1>>)
       [] t = Data -> Fixed(2, <<2, s - 2>>)
       [] t = Log -> Fixed(9, <<1, 8, s - 9>>)
       [] t = LogTagged -> Fixed(11, <<1, 2, 8, s - 11>>)
       [] t = Synchronization ->
            IF s # 8 THEN Throw
            ELSE IF n = 0 THEN Call(8)
            ELSE IF p # SYNC_MAGIC THEN Throw
            ELSE Return
       [] t = Dropout -> Fixed(2, <<2>>)
       [] OTHER -> Fixed(0, <<s>>)

\* a step that is suspended or has ended: the iterator, the reader and the
\* subscriptions it leaves
Outcome(q, rd, subs) == [q |-> q, rd |-> rd, subs |-> subs]

\* #readParsedMessage once readRawMessage has returned the record
ParsedOutcome(q, rd, subs) ==
  LET payload == SubSeq(q.got, 4, Len(q.got))
      Yield(subs2) ==
        Outcome([q EXCEPT !.st = "idle", !.out = Append(@, [i |-> q.i, bytes |-> q.got])],
                rd, subs2)
      Failed(subs2) == Outcome([q EXCEPT !.st = "error"], rd, subs2)
      DataOf(msgId) ==
        IF msgId \notin DOMAIN subs THEN Failed(subs)
        ELSE IF ~parseMessage(subs[msgId], header.definitions,
                              ViewBytes(rd, 0, rd.chunkLen), q.dataOff).ok
        THEN Failed(subs)
        ELSE Yield(subs)
      Subscribed(hs) == IF ~hs.ok THEN Failed(subs) ELSE Yield(hs.subs)
  IN IF q.t = AddLogged
     THEN Subscribed(handleSubscription(subs, header,
                       [multiId |-> payload[1], msgId |-> payload[2] + 256 * payload[3],
                        messageName |-> SubSeq(payload, 4, Len(payload))]))
     ELSE IF q.t = Data THEN DataOf(payload[1] + 256 * payload[2])
     ELSE Yield(subs)

\* a loop body that reads on from wherever the reader stands
LocatorSeekOmitted(rd, byteOffset) == [ok |-> TRUE, rd |-> rd]

\* the seek of the loop body of readMessages
LocatorSeek(rd, byteOffset) == seekTo(rd, byteOffset)

RECURSIVE LoopFrom(_, _, _), Decoding(_, _, _)
\* the for loop of readMessages at position q.i
LoopFrom(q, rd, subs) ==
  IF q.i > q.last THEN Outcome([q EXCEPT !.st = "done"], rd, subs)
  ELSE LET Sought(sk) ==
             IF ~sk.ok THEN Outcome([q EXCEPT !.st = "error"], sk.rd, subs)
             ELSE IF dataEnd - position(sk.rd) < 3
             THEN LoopFrom([q EXCEPT !.i = @ + 1], sk.rd, subs)
             ELSE Decoding([q EXCEPT !.hdr = TRUE, !.n = 0, !.got = <<>>], sk.rd, subs)
       IN Sought(LocatorSeek(rd, timeIndex.v[q.i + 1][2]))

\* the reader call of q.w bytes once #fetch has the bytes in the chunk
Consumed(q, rd, subs) ==
  IF q.w < 0 \/ ~ViewInRange(rd, rd.chunkCursor, q.w)
  THEN LoopFrom([q EXCEPT !.i = @ + 1], rd, subs)
  ELSE Decoding([q EXCEPT !.got = @ \o ViewBytes(rd, rd.chunkCursor, q.w), !.n = @ + 1,
                          !.dataOff = rd.chunkCursor],
                Advance(rd, q.w), subs)

\* #fetch from 'let bytesAvailable' on
Available(q, rd, subs) ==
  LET bytesAvailable == rd.chunkLen - rd.chunkCursor
  IN IF bytesAvailable < q.w
     THEN Outcome([q EXCEPT !.st = "await2", !.cur = rd.chunk,
                            !.req = <<rd.fileCursor,
                                      clamp(rd.chunkSize, q.w - bytesAvailable,
                                            Size - rd.fileCursor)>>],
                  rd, subs)
     ELSE Consumed(q, rd, subs)

\* #fetch up to its first read
Fetching(q, rd, subs) ==
  IF q.w > remaining(rd) THEN LoopFrom([q EXCEPT !.i = @ + 1], rd, subs)
  ELSE IF ~rd.hasChunk \/ rd.chunkCursor = rd.chunkLen
  THEN Outcome([q EXCEPT !.st = "await1",
                         !.req = <<rd.fileCursor,
                                   clamp(rd.chunkSize, q.w, Size - rd.fileCursor)>>],
               rd, subs)
  ELSE Available(q, rd, subs)

\* readRawMessage inside its try block: a throw is caught, the record is not
\* yielded and the loop goes on
Decoding(q, rd, subs) ==
  LET After(c) ==
        IF c.k = "throw" THEN LoopFrom([q EXCEPT !.i = @ + 1], rd, subs)
        ELSE IF c.k = "call" THEN Fetching([q EXCEPT !.w = c.w], rd, subs)
        ELSE IF q.hdr
        THEN Decoding([q EXCEPT !.hdr = FALSE, !.n = 0, !.t = q.got[3],
                                !.s = q.got[1] + 256 * q.got[2]], rd, subs)
        ELSE ParsedOutcome(q, rd, subs)
  IN After(IF q.hdr THEN HeaderCall(q.n)
           ELSE DecoderCall(q.t, q.s, q.n, SubSeq(q.got, 4, Len(q.got))))

\* the body of readMessages before its loop, without options
Started(q, rd, subs) ==
  LET Ranged(range) ==
        IF ~range.def THEN Outcome([q EXCEPT !.st = "done"], rd, subs)
        ELSE LoopFrom([q EXCEPT !.i = range.v[1], !.last = range.v[2]], rd, subs)
  IN IF ~timeIndex.def THEN Outcome([q EXCEPT !.st = "error"], rd, subs)
     ELSE IF Len(timeIndex.v) = 0 THEN Outcome([q EXCEPT !.st = "done"], rd, subs)
     ELSE Ranged(RangeOf(timeIndex.v, None, None))

\* the first read of #fetch has resolved
Resolved1(q, rd, subs) ==
  LET data == SourceRead(q.req[1], q.req[2])
  IN Available(q, [rd EXCEPT !.hasChunk = TRUE, !.chunk = data, !.chunkLen = Len(data),
                             !.chunkCursor = 0, !.fileCursor = @ + Len(data)],
               subs)

\* the second read of #fetch has resolved
Resolved2(q, rd, subs) ==
  LET nextChunk == SourceRead(q.req[1], q.req[2])
      chunk == BufferSlice(q.cur, rd.chunkCursor, Len(q.cur)) \o nextChunk
      Concatenated(r) ==
        IF r.chunkLen < q.w THEN LoopFrom([q EXCEPT !.i = @ + 1], r, subs)
        ELSE Consumed(q, r, subs)
  IN Concatenated([rd EXCEPT !.hasChunk = TRUE, !.chunk = chunk, !.chunkLen = Len(chunk),
                             !.chunkCursor = 0, !.fileCursor = @ + Len(nextChunk)])

Suspended(q) == q.st \in {"await1", "await2"}

\* two calls readMessages() on the opened engine
ReadMessagesTwice ==
  /\ pc = "open"
  /\ probe = NoProbe
  /\ probe' = [op |-> "iterators", its |-> <<NewIterator, NewIterator>>,
               overlapped |-> FALSE]
  /\ UNCHANGED <<file, recs, chunkSize, reader, pc, header, loc, dataEnd, appendedOffsets,
                 subscriptions, idx, timeIndex, dataMessageCounts, logMessageCount,
                 dataTimeRange, it>>

\* next() on one of the two iterators, up to its first suspension
IteratorNext ==
  /\ probe.op = "iterators"
  /\ \E j \in 1..2 :
       /\ probe.its[j].st \in {"new", "idle"}
       /\ LET q == probe.its[j]
              Ran(o) ==
                /\ probe' = [probe EXCEPT !.its[j] = o.q,
                                          !.overlapped = @ \/ Suspended(probe.its[3 - j])]
                /\ reader' = o.rd
                /\ subscriptions' = o.subs
          IN Ran(IF q.st = "new" THEN Started(q, reader, subscriptions)
                 ELSE LoopFrom([q EXCEPT !.i = @ + 1], reader, subscriptions))
  /\ UNCHANGED <<file, recs, chunkSize, pc, header, loc, dataEnd, appendedOffsets, idx,
                 timeIndex, dataMessageCounts, logMessageCount, dataTimeRange, it>>

\* the read an iterator awaits resolves and its step runs on
ReadResolved ==
  /\ probe.op = "iterators"
  /\ \E j \in 1..2 :
       /\ Suspended(probe.its[j])
       /\ LET q == probe.its[j]
              Ran(o) ==
                /\ probe' = [probe EXCEPT !.its[j] = o.q]
                /\ reader' = o.rd
                /\ subscriptions' = o.subs
          IN Ran(IF q.st = "await1" THEN Resolved1(q, reader, subscriptions)
                 ELSE Resolved2(q, reader, subscriptions))
  /\ UNCHANGED <<file, recs, chunkSize, pc, header, loc, dataEnd, appendedOffsets, idx,
                 timeIndex, dataMessageCounts, logMessageCount, dataTimeRange, it>>

NextTwo ==
  \/ OpenStart
  \/ OpenDefinition
  \/ OpenDefinitionsEnd
  \/ CreateIndexStep
  \/ CreateIndexEnd
  \/ ReadMessagesTwice
  \/ IteratorNext
  \/ ReadResolved

SpecTwo == InitTwo /\ [][NextTwo]_vars

\* open() over every input file, and a readMessages iterator created before
\* open() has completed
NextEarly ==
  \/ OpenStart
  \/ OpenDefinition
  \/ OpenDefinitionsEnd
  \/ CreateIndexStep
  \/ CreateIndexEnd
  \/ ReadMessagesEarly
  \/ ReadMessagesNext

SpecEarly == Init /\ [][NextEarly]_vars

(***************************************************************************)
(* The input file as its records lay it out.  recs never changes; these    *)
(* definitions read the layout of the file from it, independently of the   *)
(* reader.                                                                 *)
(***************************************************************************)
\* file offset of the first Data-section record
DataStart == Len(FileHeader) + Len(RecsBytes(recs.defs))

\* file offset of the k-th Data-section record
RecOffset(k) == DataStart + Len(RecsBytes(SubSeq(recs.data, 1, k - 1)))

\* the k-th Data-section record lies completely inside the file
Complete(k) == RecOffset(k) + RecLen(recs.data[k]) <= Len(file)

\* the file ends in the middle of its last Data-section record
Truncated ==
  /\ recs.data # <<>>
  /\ RecOffset(Len(recs.data)) < Len(file)
  /\ ~Complete(Len(recs.data))

AddMultiId(r) == r.payload[1]

AddMsgId(r) == r.payload[2] + 256 * r.payload[3]

AddName(r) == SubSeq(r.payload, 4, Len(r.payload))

DataMsgId(r) == r.payload[1] + 256 * r.payload[2]

\* the formats the Definitions section declares, and the size of a message
DeclaredNames == { NameM, NameN }

DeclaredSize(name) == IF name = NameM THEN 8 ELSE 9

\* a Definitions-section record the codec accepts and open() dispatches
WellFormedDef(r) ==
  CASE r.tag = FlagBits ->
         /\ r.size >= 40
         /\ r.payload[9] <= 1
         /\ \A i \in 10..16 : r.payload[i] = 0
    [] r.tag = FormatDefinition -> r.payload \in { FmtM, FmtN }
    [] r.tag \in { Information, Parameter } -> r.payload[1] <= r.size - 1
    [] OTHER -> FALSE

WellFormedDefs == \A i \in 1..Len(recs.defs) : WellFormedDef(recs.defs[i])

\* the k-th of the records rs is well-formed after the ones before it: an
\* AddLogged record names a declared format and no other AddLogged record
\* of rs binds its msg_id differently, a Data record has a msg_id that an
\* earlier AddLogged record bound and a payload of the size of that format,
\* a Synchronization record carries the magic
WellFormedRec(rs, k) ==
  CASE rs[k].tag = AddLogged ->
         /\ AddName(rs[k]) \in DeclaredNames
         /\ \A j \in 1..Len(rs) :
              (rs[j].tag = AddLogged /\ AddMsgId(rs[j]) = AddMsgId(rs[k]))
                => rs[j].payload = rs[k].payload
    [] rs[k].tag = Data ->
         \E j \in 1..(k - 1) :
           /\ rs[j].tag = AddLogged
           /\ AddMsgId(rs[j]) = DataMsgId(rs[k])
           /\ AddName(rs[j]) \in DeclaredNames
           /\ Len(rs[k].payload) - 2 = DeclaredSize(AddName(rs[j]))
    [] rs[k].tag = Synchronization -> rs[k].payload = SYNC_MAGIC
    [] OTHER -> TRUE

WellFormedRecs(rs) == \A k \in 1..Len(rs) : WellFormedRec(rs, k)

\* a complete file of well-formed records
WellFormedFile ==
  /\ WellFormedDefs
  /\ WellFormedRecs(recs.data)
  /\ Len(file) = DataStart + Len(RecsBytes(recs.data))

\* the tag byte of the record that starts at a file offset
TagAt(offset) == file[offset + 3]

(***************************************************************************)
(* Claims                                                                  *)
(***************************************************************************)
\* the bounds of a readMessages call over a non-empty index, defaults applied
StartOf(entries, startTime) == IF startTime.def THEN startTime.v ELSE entries[1][1]

EndOf(entries, endTime) == IF endTime.def THEN endTime.v ELSE entries[Len(entries)][1]

\* the positions (0-based, ascending) of the index entries whose timestamp
\* lies in [start, end]
InRange(entries, startTime, endTime) ==
  IF entries = <<>> THEN <<>>
  ELSE SelectSeq([i \in 1..Len(entries) |-> i - 1],
                 LAMBDA i : /\ Le64(StartOf(entries, startTime), entries[i + 1][1])
                            /\ Le64(entries[i + 1][1], EndOf(entries, endTime)))

\* the index positions of the records the iterator has yielded, in order
OutPositions == [j \in 1..Len(it.out) |-> it.out[j].i]

IsPrefix(a, b) == Len(a) <= Len(b) /\ a = SubSeq(b, 1, Len(a))

\* the iterator of a readMessages call with start <= end (defaults applied)
\* has taken at least one step
Iterating ==
  /\ pc = "open"
  /\ it.st \in {"running", "done", "error"}
  /\ timeIndex.v # <<>> =>
       Le64(StartOf(timeIndex.v, it.startTime), EndOf(timeIndex.v, it.endTime))

\* C1: after open() has succeeded, readMessages({startTime, endTime}) with
\* start <= end does not fail and yields the records of the index entries
\* whose timestamp lies in [start, end], one per entry and in ascending
\* index order: at every yield the positions yielded so far are a prefix of
\* the positions in range, and at the end they are all of them.  An
\* omitted bound is the first (last) indexed timestamp.
C1_ReadMessagesYieldsRange ==
  Iterating =>
    /\ it.st # "error"
    /\ IsPrefix(OutPositions, InRange(timeIndex.v, it.startTime, it.endTime))
    /\ it.st = "done" => OutPositions = InRange(timeIndex.v, it.startTime, it.endTime)

\* consecutive entries ascend by (timestamp, record file offset)
SortedIndex(entries) ==
  \A i \in 1..(Len(entries) - 1) :
    \/ Lt64(entries[i][1], entries[i + 1][1])
    \/ /\ entries[i][1] = entries[i + 1][1]
       /\ entries[i][2] < entries[i + 1][2]

\* the yields of the iterator that carry a timestamp of their own
OwnStamped == { j \in 1..Len(it.out) : it.out[j].type \in {Data, Log, LogTagged} }

\* the file offset of the record of the j-th yield
OutOffset(j) == it.entries[it.out[j].i + 1][2]

\* C2: after open() the time index is sorted ascending by (timestamp,
\* record file offset), and the Data, Log and LogTagged records that a
\* default readMessages() yields have non-decreasing own timestamps, those
\* with equal timestamps in file order.
C2_IndexSortedYieldsAscend ==
  /\ timeIndex.def => SortedIndex(timeIndex.v)
  /\ (pc = "open" /\ it.st \in {"running", "done", "error"}
        /\ ~it.startTime.def /\ ~it.endTime.def)
       => \A j, k \in OwnStamped :
            j < k => /\ Le64(it.out[j].timestamp, it.out[k].timestamp)
                     /\ it.out[j].timestamp = it.out[k].timestamp
                          => OutOffset(j) < OutOffset(k)

\* the file offsets of the published index entries
IndexedOffsets == { timeIndex.v[i][2] : i \in 1..Len(timeIndex.v) }

\* C3: if the file ends in the middle of its last Data-section record, and
\* the records before that one are well-formed, open() does not fail, and
\* once it has succeeded the index holds exactly the complete records that
\* precede the partial one (messageCount() is their number).
C3_TruncatedLastRecordDropped ==
  (Truncated /\ WellFormedDefs /\ WellFormedRecs(SubSeq(recs.data, 1, Len(recs.data) - 1))) =>
    /\ pc # "failed"
    /\ pc = "open" =>
         /\ Len(timeIndex.v) = Len(recs.data) - 1
         /\ IndexedOffsets = { RecOffset(k) : k \in 1..(Len(recs.data) - 1) }

\* a record the codec rejects: a FlagBits record shorter than 40 bytes, a
\* key-value record whose keyLen exceeds the rest of its payload, a
\* Synchronization record without the sync magic
MalformedRec(r) ==
  CASE r.tag = FlagBits -> r.size < 40
    [] r.tag \in { Information, InformationMulti, Parameter } ->
         r.size < 1 \/ r.payload[1] > r.size - 1
    [] r.tag = Synchronization -> r.payload # SYNC_MAGIC
    [] OTHER -> FALSE

MalformedInDefinitions == \E i \in 1..Len(recs.defs) : MalformedRec(recs.defs[i])

MalformedInData ==
  \E k \in 1..Len(recs.data) : Complete(k) /\ MalformedRec(recs.data[k])

\* C4: a file with a malformed record that lies completely inside it, in
\* the Definitions section or in the Data section, is never opened
\* successfully.
C4_MalformedRecordFailsOpen ==
  (MalformedInDefinitions \/ MalformedInData) => pc # "open"

\* the file has a FlagBits record with an incompatible flag the reader does
\* not know
BadIncompatibleFlags ==
  \E i \in 1..Len(recs.defs) :
    /\ recs.defs[i].tag = FlagBits
    /\ recs.defs[i].size >= 40
    /\ \/ recs.defs[i].payload[9] > 1
       \/ \E j \in 10..16 : recs.defs[i].payload[j] # 0

\* C5: a file whose FlagBits record has incompatibleFlags[0] > 1 or a
\* nonzero incompatibleFlags[1..7] is rejected: open() does not succeed, and
\* when it has failed the engine has no header and no index.
C5_IncompatibleFlagsRejected ==
  BadIncompatibleFlags =>
    /\ pc # "open"
    /\ pc = "failed" => (~header.def /\ ~timeIndex.def)

\* the FlagBits records of the file that the codec accepts
ValidFlagBits ==
  { i \in 1..Len(recs.defs) : recs.defs[i].tag = FlagBits /\ WellFormedDef(recs.defs[i]) }

\* appendedOffsets[0] as the file states it, 0 without a FlagBits record
FileAppendedOffset ==
  IF ValidFlagBits = {} THEN 0
  ELSE ToNumber(U64FromBytes(SubSeq(recs.defs[CHOOSE i \in ValidFlagBits : TRUE].payload,
                                    17, 24)))

\* C6: once the Definitions section is parsed, dataEnd is appendedOffsets[0]
\* of the FlagBits record when that lies strictly between 0 and size(), and
\* size() otherwise; every index entry is a record whose 3-byte header ends
\* at or before dataEnd, and the indexing pass reads no further record once
\* dataEnd - position() < 3.
C6_DataEndBoundsIndex ==
  dataEnd # -1 =>
    /\ dataEnd = IF 0 < FileAppendedOffset /\ FileAppendedOffset < Size
                 THEN FileAppendedOffset ELSE Size
    /\ appendedOffsets.v[1] = FileAppendedOffset
    /\ \A i \in 1..Len(idx.timeIndex) : idx.timeIndex[i][2] + 3 <= dataEnd
    /\ timeIndex.def => \A i \in 1..Len(timeIndex.v) : timeIndex.v[i][2] + 3 <= dataEnd
    /\ (pc = "index" /\ dataEnd - position(reader) < 3) =>
         LET Stops(r) == r.ok /\ r.msg = NoMsg
         IN Stops(readParsedMessage(reader, subscriptions, header, dataEnd))

\* open() has succeeded on a file with appended data: a record was indexed,
\* and a complete record that starts at or after dataEnd - 2 was not
C6_Witness ==
  /\ pc = "open"
  /\ header.flagBits.def
  /\ dataEnd < Size
  /\ timeIndex.v # <<>>
  /\ \E k \in 1..Len(recs.data) :
       /\ Complete(k)
       /\ RecOffset(k) >= dataEnd - 2
       /\ RecOffset(k) \notin IndexedOffsets

\* the first AddLogged record of the file that carries msg_id m
FirstAddLogged(m) ==
  recs.data[CHOOSE k \in 1..Len(recs.data) :
              /\ recs.data[k].tag = AddLogged /\ AddMsgId(recs.data[k]) = m
              /\ \A j \in 1..(k - 1) :
                   ~(recs.data[j].tag = AddLogged /\ AddMsgId(recs.data[j]) = m)]

\* C7: a msg_id binding is permanent: after open(), subscriptions[m] is the
\* binding made by the first AddLogged record of the file for m, whatever
\* later AddLogged records carry the same msg_id.
C7_BindingPermanent ==
  pc = "open" =>
    \A m \in DOMAIN subscriptions :
      /\ subscriptions[m].name = AddName(FirstAddLogged(m))
      /\ subscriptions[m].multiId = AddMultiId(FirstAddLogged(m))

\* the Definitions section is well-formed and has no FlagBits record: the
\* Data section is the rest of the file, and m and n are the declared formats
PlainDefinitions ==
  /\ WellFormedDefs
  /\ \A i \in 1..Len(recs.defs) : recs.defs[i].tag # FlagBits

\* the complete Data records whose msg_id no preceding AddLogged record carries
UnboundData ==
  { k \in 1..Len(recs.data) :
      /\ recs.data[k].tag = Data
      /\ Complete(k)
      /\ \A j \in 1..(k - 1) :
           ~(recs.data[j].tag = AddLogged /\ AddMsgId(recs.data[j]) = DataMsgId(recs.data[k])) }

\* C8: if the Data section contains a D record whose msg_id no preceding
\* AddLogged record has bound, open() does not succeed.
C8_UnboundDataFailsOpen ==
  (PlainDefinitions /\ UnboundData # {}) => pc # "open"

\* the complete AddLogged records that name no declared format
UndeclaredAdds ==
  { k \in 1..Len(recs.data) :
      /\ recs.data[k].tag = AddLogged
      /\ Complete(k)
      /\ AddName(recs.data[k]) \notin DeclaredNames }

\* C9: an AddLogged record whose messageName is no key of header.definitions
\* makes open() fail, and its msg_id gets no entry in subscriptions (an
\* entry for that msg_id is the binding of another AddLogged record).
C9_UndeclaredAddFailsOpen ==
  (PlainDefinitions /\ UndeclaredAdds # {}) =>
    /\ pc # "open"
    /\ \A m \in DOMAIN subscriptions : subscriptions[m].name \in DeclaredNames

\* the sum of the values of a map over a set of its keys
RECURSIVE SumOver(_, _)
SumOver(f, keys) ==
  IF keys = {} THEN 0
  ELSE LET k == CHOOSE k \in keys : TRUE
       IN f[k] + SumOver(f, keys \ {k})

\* the number of indexed records with a tag among tags
RecordsOf(tags) == Cardinality({ o \in IndexedOffsets : TagAt(o) \in tags })

\* the number of indexed Data records that carry msg_id m
DataRecordsOf(m) ==
  Cardinality({ o \in IndexedOffsets :
                  TagAt(o) = Data /\ file[o + 4] + 256 * file[o + 5] = m })

\* C10: after open(), dataMessageCounts() counts the indexed D records per
\* msg_id, so its sum is their number; logCount() is the number of indexed
\* L and C records; messageCount() is that sum plus logCount() plus the
\* number of indexed records of the other kinds.  No record is indexed
\* twice, and in a complete well-formed file every record of the Data
\* section is indexed.
C10_CountsPartitionIndex ==
  pc = "open" =>
    /\ \A m \in DOMAIN dataMessageCounts.v : dataMessageCounts.v[m] = DataRecordsOf(m)
    /\ SumOver(dataMessageCounts.v, DOMAIN dataMessageCounts.v) = RecordsOf({Data})
    /\ logCount.v = RecordsOf({Log, LogTagged})
    /\ messageCount.v = SumOver(dataMessageCounts.v, DOMAIN dataMessageCounts.v)
                          + logCount.v + RecordsOf((0..255) \ {Data, Log, LogTagged})
    /\ (PlainDefinitions /\ WellFormedFile) =>
         IndexedOffsets = { RecOffset(k) : k \in 1..Len(recs.data) }

\* open() has indexed a D record, a C record and a record of another kind
C10_Witness ==
  /\ pc = "open"
  /\ RecordsOf({Data}) >= 1
  /\ RecordsOf({LogTagged}) >= 1
  /\ RecordsOf({AddLogged}) >= 1

\* the positions of the index entries of D, L and C records
StampedEntries ==
  { i \in 1..Len(timeIndex.v) : TagAt(timeIndex.v[i][2]) \in {Data, Log, LogTagged} }

\* the timestamp a well-formed D, L or C record carries: a D record of m has
\* it after the msg_id, a D record of n after the msg_id and x, an L record
\* after the level, a C record after the level and the tag
RecTimestamp(r) ==
  U64FromBytes(CASE r.tag = Data /\ Len(r.payload) = 10 -> SubSeq(r.payload, 3, 10)
                 [] r.tag = Data /\ Len(r.payload) # 10 -> SubSeq(r.payload, 4, 11)
                 [] r.tag = Log -> SubSeq(r.payload, 2, 9)
                 [] OTHER -> SubSeq(r.payload, 4, 11))

\* the timestamps of the D, L and C records of the Data section
FileTimestamps ==
  { RecTimestamp(recs.data[k]) :
      k \in { j \in 1..Len(recs.data) : recs.data[j].tag \in {Data, Log, LogTagged} } }

\* range is [min, max] of the set stamps
IsMinMax(range, stamps) ==
  /\ range[1] \in stamps
  /\ range[2] \in stamps
  /\ \A t \in stamps : Le64(range[1], t) /\ Le64(t, range[2])

\* C11: after open(), timeRange() is none exactly when no D, L or C record
\* was indexed, and otherwise [min, max] of the timestamps of the indexed D,
\* L and C records alone; in a complete well-formed file these are the D, L
\* and C records of the Data section with the timestamps they carry.
C11_TimeRangeOfTimeBearing ==
  pc = "open" =>
    /\ timeRange.def <=> StampedEntries # {}
    /\ timeRange.def =>
         IsMinMax(timeRange.v, { timeIndex.v[i][1] : i \in StampedEntries })
    /\ (PlainDefinitions /\ WellFormedFile) =>
         /\ timeRange.def <=> FileTimestamps # {}
         /\ timeRange.def => IsMinMax(timeRange.v, FileTimestamps)

\* open() has indexed a record of another kind before a D record, and D, L
\* or C records with two different timestamps
C11_Witness ==
  /\ pc = "open"
  /\ PlainDefinitions /\ WellFormedFile
  /\ timeRange.def
  /\ timeRange.v[1] # timeRange.v[2]
  /\ timeIndex.v[1][1] = U64(0)
  /\ RecordsOf({Data}) >= 1

\* open() has indexed records of other kinds only
C11_WitnessNone ==
  /\ pc = "open"
  /\ timeIndex.v # <<>>
  /\ ~timeRange.def

\* the first and the last of the index entries of D, L and C records
FirstStamped == CHOOSE i \in StampedEntries : \A j \in StampedEntries : i <= j

LastStamped == CHOOSE i \in StampedEntries : \A j \in StampedEntries : j <= i

C13_NothingBeforeOpen ==
  [][pc # "open" =>
       /\ messageCount = None /\ logCount = None
       /\ dataMessageCounts = None /\ timeRange = None
       /\ (it.st = "new" /\ it' # it) => (it'.st = "error" /\ it'.out = <<>>)]_vars

\* open() has failed in its indexing pass, after the definitions set the
\* header and a subscription, and an iterator has ended with an error
C13_Witness ==
  /\ pc = "failed"
  /\ header.def
  /\ DOMAIN subscriptions # {}
  /\ idx.timeIndex # <<>>
  /\ it.st = "error"
  /\ it.out = <<>>

\* the subscriptions of an engine that has opened the same file and started
\* no iterator: those the indexing pass leaves, from the reader rd on
RECURSIVE OpenedSubscriptions(_, _)
OpenedSubscriptions(rd, subs) ==
  LET Read(r) ==
        IF ~r.ok \/ r.msg = NoMsg THEN r.subs ELSE OpenedSubscriptions(r.rd, r.subs)
  IN Read(readParsedMessage(rd, subs, header, dataEnd))

\* a readMessages iteration run to its end: [st, out]
RECURSIVE FreshRun(_, _, _, _, _, _)
FreshRun(entries, i, last, rd, subs, out) ==
  LET Ran(run) ==
        IF run.st = "running"
        THEN FreshRun(entries, run.i + 1, last, run.rd, run.subs,
                      Append(out, Yielded(run.i, run.msg)))
        ELSE [st |-> run.st, out |-> out]
  IN Ran(RunToYield(entries, i, last, rd, subs))

\* what readMessages(startTime, endTime) yields on an engine that has opened
\* the same file and started no iterator
Fresh(startTime, endTime) ==
  LET Ranged(range) ==
        IF ~range.def THEN [st |-> "done", out |-> <<>>]
        ELSE FreshRun(timeIndex.v, range.v[1], range.v[2], reader,
                      OpenedSubscriptions(seekTo(reader, DataStart).rd, <<>>), <<>>)
  IN IF Len(timeIndex.v) = 0 THEN [st |-> "done", out |-> <<>>]
     ELSE Ranged(RangeOf(timeIndex.v, startTime, endTime))

\* C14: after an iterator was abandoned, a readMessages iterator yields
\* exactly the sequence of records that the same call yields on an engine
\* on which no iterator was ever started.
C14_AbandonLeavesEngineValid ==
  (probe.op = "abandoned" /\ it.st \in {"running", "done", "error"}) =>
    /\ IsPrefix(it.out, Fresh(it.startTime, it.endTime).out)
    /\ it.st \in {"done", "error"} => it.out = Fresh(it.startTime, it.endTime).out

\* the first iterator of an engine yields what Fresh says, and ends as it
FreshIsFirst ==
  (probe = NoProbe /\ it.st \in {"running", "done", "error"}) =>
    /\ IsPrefix(it.out, Fresh(it.startTime, it.endTime).out)
    /\ it.st \in {"done", "error"} =>
         /\ it.out = Fresh(it.startTime, it.endTime).out
         /\ it.st = Fresh(it.startTime, it.endTime).st

\* no msg_id is bound by two AddLogged records of the file
NoRebinding ==
  \A j, k \in 1..Len(recs.data) :
    (j < k /\ recs.data[j].tag = AddLogged /\ recs.data[k].tag = AddLogged)
      => AddMsgId(recs.data[j]) # AddMsgId(recs.data[k])

\* the statement of C14 for files in which no msg_id is bound twice
AbandonValidWithoutRebinding == NoRebinding => C14_AbandonLeavesEngineValid

\* the 0-based indices of the entries of the call with a timestamp of at
\* least minValue, and of at most maxValue
AtLeastMin ==
  { i \in 0..(Len(probe.entries) - 1) : Le64(probe.minValue, probe.entries[i + 1][1]) }

AtMostMax ==
  { j \in 0..(Len(probe.entries) - 1) : Le64(probe.entries[j + 1][1], probe.maxValue) }

SetMin(S) == CHOOSE x \in S : \A y \in S : x <= y

SetMax(S) == CHOOSE x \in S : \A y \in S : y <= x

\* C15: findRange returns a pair exactly when a smallest i with
\* ts[i] >= start and a largest j with ts[j] <= end both exist and i <= j,
\* and no range in every other case.
C15_FindRangeIffOrdered ==
  (probe.op = "findRange" /\ probe.called) =>
    (probe.result.def <=>
       /\ AtLeastMin # {}
       /\ AtMostMax # {}
       /\ SetMin(AtLeastMin) <= SetMax(AtMostMax))

\* findRange returns a pair exactly when the two indices exist
FindRangeIffBothExist ==
  (probe.op = "findRange" /\ probe.called) =>
    (probe.result.def <=> (AtLeastMin # {} /\ AtMostMax # {}))

\* C16: a pair (i, j) that findRange returns has i the smallest index with
\* ts[i] >= a, so ts[i-1] < a when i > 0, and j the largest index with
\* ts[j] <= b, so ts[j+1] > b when j is not the last index.
C16_FindRangeTightBounds ==
  (probe.op = "findRange" /\ probe.called /\ probe.result.def) =>
    LET i == probe.result.v[1]
        j == probe.result.v[2]
    IN /\ AtLeastMin # {} /\ i = SetMin(AtLeastMin)
       /\ AtMostMax # {} /\ j = SetMax(AtMostMax)
       /\ i > 0 => Lt64(probe.entries[i][1], probe.minValue)
       /\ j < Len(probe.entries) - 1 => Lt64(probe.maxValue, probe.entries[j + 2][1])

\* findRange has returned a pair inside an index in which the entries at
\* both ends of the pair share their timestamp with a neighbour
C16_Witness ==
  /\ probe.op = "findRange" /\ probe.called /\ probe.result.def
  /\ LET i == probe.result.v[1]
         j == probe.result.v[2]
     IN /\ 0 < i /\ i < j /\ j < Len(probe.entries) - 1
        /\ probe.entries[i + 1][1] = probe.entries[i + 2][1]
        /\ probe.entries[j + 1][1] = probe.entries[j][1]
        /\ probe.entries[i + 1][1] # probe.entries[j + 1][1]

\* the last call is one to a ChunkedReader alone
ReaderCalled == probe.op \notin {"none", "findRange", "abandoned", "new"}

\* the reader and the second reader have ended the last call alike
Alike ==
  /\ probe.ok = probe.bigOk
  /\ probe.ok => probe.v = probe.bigV
  /\ position(reader) = position(probe.big)

\* C17: after every typed read of a sequence of typed reads, a reader of any
\* chunkSize >= 1 has returned the same value as a reader whose chunkSize is
\* at least the file size, or failed as it did, and reports the same
\* position().
C17_ChunkSizeInvisible == (ReaderCalled /\ probe.typed) => Alike

\* the same after every operation, as long as no readString call was given a
\* negative length
ChunkSizeInvisibleUnlessNegative == (ReaderCalled /\ ~probe.negative) => Alike

\* the bytes the last call needs
Needed ==
  CASE probe.op \in {"skip", "readBytes", "readString"} -> probe.arg
    [] probe.op = "peekUint8" -> probe.arg + 1
    [] probe.op = "readUint8" -> 1
    [] probe.op \in {"readInt16", "readUint16"} -> 2
    [] probe.op \in {"readInt32", "readUint32", "readFloat32"} -> 4
    [] probe.op \in {"readFloat64", "readInt64", "readUint64"} -> 8
    [] OTHER -> 0

\* the last call was given a negative count, or needs more bytes than
\* remaining() was before it
Overdrawn ==
  /\ ReaderCalled
  /\ \/ probe.op \in {"skip", "readBytes", "readString"} /\ probe.arg < 0
     \/ probe.op \notin {"seek", "seekTo"} /\ Needed > Size - probe.pos

\* C18: an operation that is given a negative count, or that needs more
\* bytes than remaining(), fails with an error and returns no value.
C18_OverdrawnFails == Overdrawn => ~probe.ok

\* the same of every call but readString with a negative length
OverdrawnFailsButReadString ==
  (Overdrawn /\ ~(probe.op = "readString" /\ probe.arg < 0)) => ~probe.ok

\* the offset a seek or seekTo call aims at
Target == IF probe.op = "seek" THEN probe.pos + probe.arg ELSE probe.arg

\* C19: seek(relative) and seekTo(absolute) succeed exactly when the target
\* offset lies in [0, size()]; then position() is the target, remaining() is
\* size() minus the target and the chunk is discarded; otherwise they fail.
C19_SeekIffInsideFile ==
  (ReaderCalled /\ probe.op \in {"seek", "seekTo"}) =>
    /\ probe.ok <=> (0 <= Target /\ Target <= Size)
    /\ probe.ok =>
         /\ position(reader) = Target
         /\ remaining(reader) = Size - Target
         /\ ~reader.hasChunk /\ reader.chunk = <<>>

\* a seek back from inside the file has succeeded, and one to the end of it
C19_Witness ==
  /\ ReaderCalled
  /\ probe.op = "seek" /\ probe.arg < 0 /\ probe.ok
  /\ position(reader) > 0
  /\ ~probe.negative

\* what the reads of up to 8 bytes return on the reader rd, and position()
\* after each
ReadsOf(rd) ==
  LET Seen(r) == << r.ok, IF r.ok THEN r.v ELSE 0, position(r.rd) >>
  IN << Seen(readUint8(rd)), Seen(readInt16(rd)), Seen(readUint16(rd)),
        Seen(readInt32(rd)), Seen(readUint32(rd)), Seen(readFloat32(rd)),
        Seen(readFloat64(rd)), Seen(readInt64(rd)), Seen(readUint64(rd)),
        [n \in 0..MaxCount |-> Seen(readBytes(rd, n))],
        [n \in 0..MaxCount |-> Seen(readString(rd, n))] >>

\* C20: peekUint8(k), k >= 0 and position()+k an offset of the source below
\* size(), returns the source byte at that offset and leaves position()
\* and remaining() unchanged; the reads after it return what they return
\* without the peek.
C20_PeekLeavesReaderAlone ==
  (/\ ReaderCalled /\ probe.op = "peekUint8"
   /\ 0 <= probe.pos + probe.arg /\ probe.pos + probe.arg < Size) =>
    /\ probe.ok
    /\ probe.v = file[probe.pos + probe.arg + 1]
    /\ position(reader) = probe.pos
    /\ remaining(reader) = Size - probe.pos
    /\ ReadsOf(reader) = ReadsOf(probe.before)

\* the same as long as no readString call was given a negative length
PeekLeavesReaderAloneUnlessNegative == ~probe.negative => C20_PeekLeavesReaderAlone

(***************************************************************************)
(* C21: messageSize(def, defs) is the sum, over all fields of def, padding *)
(* fields included, of elementSize(field) x (arrayLength or 1), where      *)
(* elementSize is the builtin width of a builtin type and messageSize of   *)
(* the referenced definition for a complex type (every type referenced    *)
(* being declared).                                                        *)
(***************************************************************************)
\* every complex type that is reached from these fields is declared
RECURSIVE Declared(_, _, _)
Declared(fields, definitions, depth) ==
  \A i \in 1..Len(fields) :
    fields[i].isComplex =>
      /\ depth < MaxDepth
      /\ fields[i].type \in DOMAIN definitions
      /\ Declared(definitions[fields[i].type].fields, definitions, depth + 1)

\* the sum of elementSize x (arrayLength or 1) from field i on
RECURSIVE SizeSum(_, _, _)
SizeSum(fields, i, definitions) ==
  IF i > Len(fields) THEN 0
  ELSE (IF fields[i].isComplex
        THEN SizeSum(definitions[fields[i].type].fields, 1, definitions)
        ELSE BASIC_SIZES(fields[i].type))
         * (IF fields[i].isArray THEN fields[i].arrayLength ELSE 1)
       + SizeSum(fields, i + 1, definitions)

SizeCalled ==
  /\ probe.op = "parse"
  /\ probe.called = "messageSize"
  /\ Declared(probe.definitions[NameT].fields, probe.definitions, 0)

C21_MessageSizeIsSum ==
  SizeCalled =>
    probe.size = SizeSum(probe.definitions[NameT].fields, 1, probe.definitions)

\* the same for the definitions that have no array field, at any depth
RECURSIVE ArrayFree(_, _)
ArrayFree(fields, definitions) ==
  \A i \in 1..Len(fields) :
    /\ ~fields[i].isArray
    /\ fields[i].isComplex => ArrayFree(definitions[fields[i].type].fields, definitions)

MessageSizeIsSumWithoutArrays ==
  (SizeCalled /\ ArrayFree(probe.definitions[NameT].fields, probe.definitions)) =>
    probe.size = SizeSum(probe.definitions[NameT].fields, 1, probe.definitions)

(***************************************************************************)
(* C27: when parseMessage decodes a message, each non-padding field is     *)
(* read at the start offset plus the sum of fieldSize x (arrayLength or 1) *)
(* of all fields declared before it, padding fields included, and no       *)
(* padding field appears in the decoded output.                            *)
(***************************************************************************)
\* the sum of fieldSize x (arrayLength or 1) of the fields before field i
RECURSIVE OffsetBefore(_, _, _)
OffsetBefore(fields, i, definitions) ==
  IF i <= 1 THEN 0
  ELSE OffsetBefore(fields, i - 1, definitions)
       + fieldSize(fields[i - 1], definitions)
           * (IF fields[i - 1].isArray THEN fields[i - 1].arrayLength ELSE 1)

MessageParsed ==
  /\ probe.op = "parse"
  /\ probe.called = "parseMessage"
  /\ probe.value.ok

\* field i of the decoded message has the value that is read at offset p
ReadAt(fields, i, p) ==
  LET Same(expected) ==
        /\ expected.ok
        /\ fields[i].name \in DOMAIN probe.value.val.v
        /\ probe.value.val.v[fields[i].name] = expected.val
  IN Same(parseFieldValue(fields[i], probe.definitions, probe.view, p))

FieldsReadAtOffsets(fields) ==
  \A i \in 1..Len(fields) :
    IF IsPadding(fields[i].name)
    THEN fields[i].name \notin DOMAIN probe.value.val.v
    ELSE ReadAt(fields, i, probe.offset + OffsetBefore(fields, i, probe.definitions))

C27_FieldsReadAtDeclaredOffsets ==
  MessageParsed => FieldsReadAtOffsets(probe.definitions[NameT].fields)

\* the same for the definitions whose padding fields all come last
PaddingLast(fields) ==
  \A i, j \in 1..Len(fields) :
    (i < j /\ IsPadding(fields[i].name)) => IsPadding(fields[j].name)

FieldsReadAtDeclaredOffsetsPaddingLast ==
  (MessageParsed /\ PaddingLast(probe.definitions[NameT].fields)) =>
    FieldsReadAtOffsets(probe.definitions[NameT].fields)

(***************************************************************************)
(* C25: parseMessageDefinition(s) fails whenever the message name is empty *)
(* or a non-empty field is malformed (no type, no name, a bracket suffix   *)
(* that is not '[' decimal-digits ']' directly after the type, or an       *)
(* arrayLength <= 0), and in all other cases returns the name and the      *)
(* fields in declaration order, empty fields ignored.                      *)
(***************************************************************************)
\* the position of the first '[' of s, or Len(s) + 1
FirstBracket(s) ==
  LET js == { j \in 1..Len(s) : s[j] = ChLBracket }
  IN IF js = {} THEN Len(s) + 1 ELSE CHOOSE j \in js : \A k \in js : j <= k

\* the field "type name" or "type[digits] name" as the format describes it
DescribedField(fieldString) ==
  LET parts == Split(fieldString, ChSpace)
      typeAndArray == parts[1]
      name == IF Len(parts) >= 2 THEN parts[2] ELSE <<>>
      b == FirstBracket(typeAndArray)
      type == SubSeq(typeAndArray, 1, b - 1)
      suffix == SubSeq(typeAndArray, b, Len(typeAndArray))
      digits == SubSeq(suffix, 2, Len(suffix) - 1)
      suffixOk ==
        suffix = <<>> \/ (/\ Len(suffix) >= 3
                          /\ suffix[Len(suffix)] = ChRBracket
                          /\ \A d \in 1..Len(digits) : digits[d] \in Digits)
  IN IF type = <<>> \/ name = <<>> \/ ~suffixOk THEN NoField
     ELSE IF suffix # <<>> /\ ParseInt(digits) <= 0 THEN NoField
     ELSE [ok |-> TRUE, type |-> type, name |-> name, isArray |-> suffix # <<>>,
           arrayLength |-> IF suffix = <<>> THEN 0 ELSE ParseInt(digits)]

\* the name and the non-empty fields of "name:field;field;..."
FormatName(format) == Split(format, ChColon)[1]

DescribedFields(format) ==
  LET pieces == Split(Split(format, ChColon)[2], ChSemi)
      kept == SelectSeq([i \in 1..Len(pieces) |-> Trim(pieces[i])], LAMBDA t : t # <<>>)
  IN [i \in 1..Len(kept) |-> DescribedField(kept[i])]

DescribedFailure(format) ==
  \/ FormatName(format) = <<>>
  \/ \E i \in 1..Len(DescribedFields(format)) : ~DescribedFields(format)[i].ok

DefinitionParsed == probe.op = "definition" /\ probe.called

ResultAsDescribed ==
  IF DescribedFailure(probe.format) THEN ~probe.result.ok
  ELSE /\ probe.result.ok
       /\ probe.result.name = FormatName(probe.format)
       /\ Len(probe.result.fields) = Len(DescribedFields(probe.format))
       /\ \A i \in 1..Len(probe.result.fields) :
            LET f == probe.result.fields[i]
                d == DescribedFields(probe.format)[i]
            IN /\ f.type = d.type
               /\ f.name = d.name
               /\ f.isArray = d.isArray
               /\ f.arrayLength = d.arrayLength

C25_ParseMessageDefinition == DefinitionParsed => ResultAsDescribed

\* the same for the formats that have a character after the ':' and whose
\* every '[' opens a suffix '[' decimal-digits ']' directly after a type
BracketsMatch(format) ==
  LET pieces == Split(Split(format, ChColon)[2], ChSemi)
  IN \A i \in 1..Len(pieces) :
       LET typeAndArray == Split(Trim(pieces[i]), ChSpace)[1]
       IN FirstBracket(typeAndArray) <= Len(typeAndArray) => ArrayMatch(typeAndArray).ok

ParseMessageDefinitionOfMatchingBrackets ==
  (/\ DefinitionParsed
   /\ Split(probe.format, ChColon)[2] # <<>>
   /\ BracketsMatch(probe.format)) => ResultAsDescribed

(***************************************************************************)
(* C23: if one of the first 7 bytes of the file differs from the magic     *)
(* 55 4C 6F 67 01 12 35, or the file is shorter than the 16-byte header,   *)
(* open() fails and header stays unset; otherwise header.version is byte 7 *)
(* and header.timestamp the little-endian uint64 of bytes 8..15.           *)
(***************************************************************************)
BadHeader ==
  \/ Len(file) < 16
  \/ \E i \in 1..7 : file[i] # << 85, 76, 111, 103, 1, 18, 53 >>[i]

C23_HeaderChecked ==
  /\ BadHeader => (header = None /\ pc \in {"new", "failed"})
  /\ (~BadHeader /\ pc \notin {"new", "failed"}) =>
       /\ loc.version = file[8]
       /\ loc.timestamp = U64FromBytes(SubSeq(file, 9, 16))
  /\ (~BadHeader /\ header.def) =>
       /\ header.version = file[8]
       /\ header.timestamp = U64FromBytes(SubSeq(file, 9, 16))

\* open() has failed on a complete header whose magic is wrong
C23_Witness ==
  /\ pc = "failed"
  /\ Len(file) > 16
  /\ \E i \in 1..7 : file[i] # << 85, 76, 111, 103, 1, 18, 53 >>[i]

\* open() has completed on a header of another version and timestamp
C23_WitnessOpened ==
  /\ pc = "open"
  /\ header.def
  /\ header.version = MaxVersion
  /\ header.timestamp = U64(MaxVersion)

\* open() has failed on a file cut inside its header after an intact magic
C23_WitnessShort ==
  /\ pc = "failed"
  /\ Len(file) \in 8..15
  /\ SubSeq(file, 1, 7) = << 85, 76, 111, 103, 1, 18, 53 >>

(***************************************************************************)
(* C22: decoding a Data record whose subscription's definition has no      *)
(* non-padding field named timestamp of type uint64_t fails, and the error *)
(* propagates out of open(); when such a field exists, its decoded value   *)
(* is the timestamp under which the record is indexed.                     *)
(***************************************************************************)
\* the format t of a file that declares n and t
FormatT == parseMessageDefinition(recs.defs[2].payload)

FormatDefinitions == DefinitionsOf(<< recs.defs[1].payload, recs.defs[2].payload >>)

IsTimestampField(f) ==
  /\ f.name = S_timestamp
  /\ f.type = S_uint64_t
  /\ ~f.isArray
  /\ ~IsPadding(f.name)

HasTimestampField(definition) ==
  \E i \in 1..Len(definition.fields) : IsTimestampField(definition.fields[i])

\* the body of the Data record of the file, and the offset of the record
DataBody == SubSeq(recs.data[2].payload, 3, Len(recs.data[2].payload))

DataOffset == RecOffset(2)

\* the value of the uint64_t at offset p of the body, if the body has it
BodyUint64(p) ==
  IF p + 8 <= Len(DataBody) THEN Some(U64FromBytes(SubSeq(DataBody, p + 1, p + 8)))
  ELSE None

\* the entries of the index so far, and of the index once it is published
EntriesSoFar == IF timeIndex.def THEN timeIndex.v ELSE idx.timeIndex

FormatsFile == Len(recs.defs) = 2 /\ recs.defs[2].payload \in FileFormats

C22_TimestampFieldRequired ==
  FormatsFile =>
    /\ ~HasTimestampField(FormatT) => pc # "open"
    /\ HasTimestampField(FormatT) =>
         \A e \in 1..Len(EntriesSoFar) :
           EntriesSoFar[e][2] = DataOffset =>
             \E i \in 1..Len(FormatT.fields) :
               /\ IsTimestampField(FormatT.fields[i])
               /\ Some(EntriesSoFar[e][1]) =
                    BodyUint64(OffsetBefore(FormatT.fields, i, FormatDefinitions))

\* the fields of the format t end inside the body of the Data record
FitsBody ==
  OffsetBefore(FormatT.fields, Len(FormatT.fields) + 1, FormatDefinitions) <= Len(DataBody)

\* the same, where a timestamp field of type int64_t counts as one, for the
\* formats whose padding fields come last and whose fields end inside the body
IsBigintTimestampField(f) ==
  /\ f.name = S_timestamp
  /\ f.type \in {S_uint64_t, S_int64_t}
  /\ ~f.isArray

BigintTimestampRequired ==
  (FormatsFile /\ PaddingLast(FormatT.fields) /\ FitsBody) =>
    /\ (~\E i \in 1..Len(FormatT.fields) : IsBigintTimestampField(FormatT.fields[i]))
         => pc # "open"
    /\ \A e \in 1..Len(EntriesSoFar) :
         EntriesSoFar[e][2] = DataOffset =>
           \E i \in 1..Len(FormatT.fields) :
             /\ IsBigintTimestampField(FormatT.fields[i])
             /\ \/ Some(EntriesSoFar[e][1]) =
                     BodyUint64(OffsetBefore(FormatT.fields, i, FormatDefinitions))
                \/ FormatT.fields[i].type = S_int64_t

(***************************************************************************)
(* C30: decoding a Data record reads only bytes of that record's payload:  *)
(* if the total size of the bound definition exceeds the payload length    *)
(* (size - 2), decoding fails instead of taking field values, or the       *)
(* characters of a char array, from the bytes after the payload.  A        *)
(* record whose decoding fails is never indexed.  Stated for the           *)
(* definitions without a char field, which nothing truncates.              *)
(***************************************************************************)
\* the fields of the format t, none of them a char, need more bytes than the
\* Data record's body has
BodyTooShort ==
  /\ FormatsFile
  /\ Declared(FormatT.fields, FormatDefinitions, 0)
  /\ \A i \in 1..Len(FormatT.fields) : FormatT.fields[i].type # S_char
  /\ SizeSum(FormatT.fields, 1, FormatDefinitions) > Len(DataBody)

DataIndexed == \E e \in 1..Len(EntriesSoFar) : EntriesSoFar[e][2] = DataOffset

C30_DataDecodedInsidePayload == BodyTooShort => ~DataIndexed

\* the Data record is indexed only if the fields of t, as parseMessage lays
\* them out, end inside the file
DataIndexedInsideFile ==
  (FormatsFile /\ DataIndexed) =>
    DataOffset + 5 + OffsetBefore(FormatT.fields, Len(FormatT.fields) + 1, FormatDefinitions)
      <= Len(file)

(***************************************************************************)
(* C24: a record whose tag byte is none of the 13 known tags is decoded as *)
(* an Unknown record; it causes no error, wherever in the file it occurs,  *)
(* and the record that follows it is decoded normally.  So a complete file *)
(* with a Data section whose other records are all well-formed never makes *)
(* open() fail.                                                            *)
(***************************************************************************)
KnownTags ==
  { FlagBits, Information, InformationMulti, FormatDefinition, Parameter,
    ParameterDefault, AddLogged, RemoveLogged, Data, Log, LogTagged,
    Synchronization, Dropout }

\* the records of rs whose tag is known
KnownOf(rs) == SelectSeq(rs, LAMBDA r : r.tag \in KnownTags)

HasUnknownRecord ==
  \E i \in 1..Len(recs.defs \o recs.data) : (recs.defs \o recs.data)[i].tag \notin KnownTags

\* a complete file whose records of known tags are well-formed
WellFormedButUnknown ==
  /\ \A i \in 1..Len(recs.defs) :
       recs.defs[i].tag \in KnownTags => WellFormedDef(recs.defs[i])
  /\ WellFormedRecs(KnownOf(recs.data))
  /\ Len(file) = DataStart + Len(RecsBytes(recs.data))

C24_UnknownRecordHarmless ==
  (HasUnknownRecord /\ WellFormedButUnknown /\ recs.data # <<>>) => pc # "failed"

\* a complete file of well-formed records of known tags with a Data section
\* never makes open() fail
WellFormedFileOpens == (WellFormedFile /\ recs.data # <<>>) => pc # "failed"

(***************************************************************************)
(* C29: record framing is preserved: after a record with size field s is   *)
(* decoded successfully from file offset p, position() is p + 3 + s, for   *)
(* every tag (B with s > 40, R with s > 1 and O with s > 2 included), so   *)
(* the next record is decoded from the true start of the following record. *)
(* In a complete file of such records the reader therefore stands at the   *)
(* start of a record, or at the end of the file, between any two reads.    *)
(***************************************************************************)
\* the offsets at which the records of the file start, and its end
RecordStarts ==
  { Len(FileHeader) + Len(RecsBytes(SubSeq(recs.defs \o recs.data, 1, k))) :
      k \in 0..Len(recs.defs \o recs.data) }

\* open() is between two reads of a record
BetweenRecords == pc \in {"defs", "index"}

C29_FramingPreserved == BetweenRecords => position(reader) \in RecordStarts

\* a record whose decoder reads fewer bytes than its size field counts
Oversized(r) ==
  \/ r.tag = FlagBits /\ r.size > 40
  \/ r.tag = RemoveLogged /\ r.size > 1
  \/ r.tag = Dropout /\ r.size > 2

\* the same for the files without such a record
FramingPreservedUnlessOversized ==
  (/\ BetweenRecords
   /\ \A k \in 1..Len(recs.defs \o recs.data) : ~Oversized((recs.defs \o recs.data)[k]))
    => position(reader) \in RecordStarts

\* an Unknown record in the Data section, after a record of a Data-section
\* type, is indexed like any other record and does not make open() fail
UnknownInDataHarmless ==
  (/\ \A k \in 1..Len(recs.defs \o recs.data) : ~Oversized((recs.defs \o recs.data)[k])
   /\ WellFormedButUnknown
   /\ recs.data # <<>>
   /\ recs.data[1].tag \in KnownTags) => pc # "failed"

(***************************************************************************)
(* C28: every record that is not a D, L or C record is indexed with the    *)
(* maximum timestamp over all D, L and C records that precede it in file   *)
(* order (0 when there is none); hence in the sorted index it never comes  *)
(* before a time-bearing record that precedes it in the file.              *)
(***************************************************************************)
TimeBearing(entry) == TagAt(entry[2]) \in {Data, Log, LogTagged}

\* the time-bearing entries of the records before the record of entry i
StampedBefore(entries, i) ==
  { j \in 1..Len(entries) : TimeBearing(entries[j]) /\ entries[j][2] < entries[i][2] }

\* the maximum timestamp of the entries js, 0 when there is none
MaxStamp(entries, js) ==
  IF js = {} THEN U64(0)
  ELSE entries[CHOOSE j \in js : \A k \in js : Le64(entries[k][1], entries[j][1])][1]

CarriesLastMaximum(entries) ==
  \A i \in 1..Len(entries) :
    ~TimeBearing(entries[i]) =>
      /\ entries[i][1] = MaxStamp(entries, StampedBefore(entries, i))
      /\ \A j \in StampedBefore(entries, i) : j < i

C28_OthersCarryLastMaximum == CarriesLastMaximum(EntriesSoFar)

\* the same for the files whose Data records carry unsigned timestamps
SignedTimestamps ==
  /\ FormatsFile
  /\ \E i \in 1..Len(FormatT.fields) :
       FormatT.fields[i].name = S_timestamp /\ FormatT.fields[i].type = S_int64_t

OthersCarryLastMaximumUnsigned ==
  ~SignedTimestamps => CarriesLastMaximum(EntriesSoFar)

\* the sequence s back to front
Reverse(s) == [j \in 1..Len(s) |-> s[Len(s) + 1 - j]]

\* a readMessages call that carried reverse: true has run to its end
ReversedDone == probe.op = "reverse" /\ Iterating /\ it.st = "done"

\* C26: with reverse = true, readMessages yields the same records as
\* without it, in descending index order: when the iteration has ended, the
\* positions it yielded are the positions of the entries in range, last
\* first, the exact reverse of the ascending sequence.
C26_ReverseYieldsDescending ==
  ReversedDone =>
    OutPositions = Reverse(InRange(timeIndex.v, it.startTime, it.endTime))

\* what readMessages does with reverse: true: the same records, in
\* ascending index order
ReverseIgnored ==
  ReversedDone => OutPositions = InRange(timeIndex.v, it.startTime, it.endTime)

\* the four query accessors return none
QueriesNone ==
  /\ messageCount = None /\ logCount = None
  /\ dataMessageCounts = None /\ timeRange = None

\* C31: when open() has failed, at the magic, in the Definitions section or
\* in the indexing pass, the engine is as it was constructed: header is
\* unset, subscriptions is empty and messageCount(), logCount(),
\* dataMessageCounts() and timeRange() return none.
C31_FailedOpenLeavesUnopened ==
  pc = "failed" => (header = None /\ subscriptions = <<>> /\ QueriesNone)

\* what a failed open() leaves: the accessors return none, and header and
\* subscriptions are untouched when the failure came before the indexing
\* pass, which starts once header is set
FailedOpenBeforeIndexing ==
  pc = "failed" => (QueriesNone /\ (header = None => subscriptions = <<>>))

\* what the getters and query accessors of the engine return
QueryState ==
  <<header, timeIndex, messageCount, logCount, dataMessageCounts, timeRange, subscriptions>>

\* C32: readMessages, with any options and whether run to its end or
\* abandoned part-way, leaves the query state of the opened engine
\* unchanged: no call, iteration step or abandonment after open() changes
\* header, the time index, messageCount(), logCount(), dataMessageCounts(),
\* timeRange() or the bindings in subscriptions.
C32_ReadMessagesLeavesQueryState ==
  [][pc = "open" => QueryState' = QueryState]_vars

\* the statement of C32 for files in which no msg_id is bound twice
QueryStateKeptWithoutRebinding ==
  [][(pc = "open" /\ NoRebinding) => QueryState' = QueryState]_vars

\* whatever the file, an iteration changes nothing but subscriptions
QueryStateKeptButSubscriptions ==
  [][pc = "open" =>
       <<header, timeIndex, messageCount, logCount, dataMessageCounts, timeRange>>' =
       <<header, timeIndex, messageCount, logCount, dataMessageCounts, timeRange>>]_vars

\* the bytes of the record of the file at a byte offset: its 3-byte header
\* and as many payload bytes as its size field says
RecordAt(byteOffset) ==
  SubSeq(file, byteOffset + 1,
         byteOffset + 3 + file[byteOffset + 1] + 256 * file[byteOffset + 2])

\* an iterator over the whole index has yielded, for the index positions
\* 0, 1, ... in turn, the record located by the entry: none skipped, none
\* decoded from another place; at its end it has yielded all of them
YieldsOwnEntries(q) ==
  /\ \A k \in 1..Len(q.out) :
       /\ q.out[k].i = k - 1
       /\ k <= Len(timeIndex.v)
       /\ q.out[k].bytes = RecordAt(timeIndex.v[k][2])
  /\ q.st = "done" => Len(q.out) = Len(timeIndex.v)

\* the chunk of the reader holds the bytes of the file that end at its
\* file cursor, so that position() is the offset of the byte at its cursor
ReaderConsistent ==
  /\ reader.fileCursor <= Size
  /\ reader.chunkLen <= reader.fileCursor
  /\ reader.chunk = SourceRead(reader.fileCursor - reader.chunkLen, reader.chunkLen)

\* C33: when steps of two readMessages iterators on one engine are in
\* flight at the same time, interleaved at the reads of the byte source,
\* each iterator yields exactly the record located by its own current index
\* entry and the position and chunk of the reader stay consistent.
C33_InterleavedIteratorsYieldOwn ==
  probe.op = "iterators" =>
    /\ \A j \in 1..2 : YieldsOwnEntries(probe.its[j])
    /\ ReaderConsistent

\* C33 as amended: as long as no step of one iterator was started while a
\* step of the other was suspended at a read, each of the two iterators
\* yields exactly the record located by its own current index entry and
\* the position and chunk of the reader stay consistent.
IteratorsInTurnYieldOwn ==
  (probe.op = "iterators" /\ ~probe.overlapped) =>
    /\ \A j \in 1..2 : YieldsOwnEntries(probe.its[j])
    /\ ReaderConsistent

\* the steps of the two iterators never overlapped; the first has yielded
\* one record of two and is suspended at its yield, the second has run to
\* its end
C33_Witness ==
  /\ probe.op = "iterators"
  /\ ~probe.overlapped
  /\ probe.its[1].st = "idle" /\ Len(probe.its[1].out) = 1
  /\ probe.its[2].st = "done" /\ Len(probe.its[2].out) = 2

\* a complete file of a valid header and well-formed Definitions-section
\* records only
DefinitionsOnly == recs.data = <<>> /\ recs.cut = 0 /\ WellFormedFile

\* C34: open() succeeds on a file that consists of a valid 16-byte header
\* followed only by well-formed Definitions-section records: it does not
\* fail, and once it has completed messageCount() is 0 and timeRange() is
\* none.
C34_DefinitionsOnlyFileOpens ==
  DefinitionsOnly =>
    /\ pc # "failed"
    /\ pc = "open" => (messageCount = Some(0) /\ timeRange = None)

\* what open() does on such a file: it never completes
DefinitionsOnlyNeverOpens == DefinitionsOnly => pc # "open"

\* the record that starts at a byte offset ends at or before dataEnd
InsideDataSection(byteOffset) ==
  byteOffset + 3 + file[byteOffset + 1] + 256 * file[byteOffset + 2] <= dataEnd

\* C35: every indexed record lies entirely inside the logical data section:
\* an index entry with record offset p and size field s has
\* p + 3 + s <= dataEnd, so a record whose payload extends past dataEnd is
\* not indexed.
C35_IndexedInsideDataSection ==
  dataEnd # -1 =>
    /\ \A i \in 1..Len(idx.timeIndex) : InsideDataSection(idx.timeIndex[i][2])
    /\ timeIndex.def => \A i \in 1..Len(timeIndex.v) : InsideDataSection(timeIndex.v[i][2])

\* every indexed record lies inside the file, whatever dataEnd is
IndexedInsideFile ==
  \A i \in 1..Len(idx.timeIndex) :
    LET p == idx.timeIndex[i][2]
    IN p + 3 + file[p + 1] + 256 * file[p + 2] <= Size

\* parseMessage was called on t, whose complex fields are all declared,
\* which has a uint64_t timestamp field of its own, and whose fields end
\* inside the view
TopLevelStamped ==
  /\ probe.op = "parse"
  /\ probe.called = "parseMessage"
  /\ Declared(probe.definitions[NameT].fields, probe.definitions, 0)
  /\ HasTimestampField(probe.definitions[NameT])
  /\ probe.offset + SizeSum(probe.definitions[NameT].fields, 1, probe.definitions)
       <= Len(probe.view)

\* every definition that is reached through complex fields has a bigint
\* timestamp field
RECURSIVE NestedStamped(_, _)
NestedStamped(fields, definitions) ==
  \A i \in 1..Len(fields) :
    fields[i].isComplex =>
      /\ \E j \in 1..Len(definitions[fields[i].type].fields) :
           IsBigintTimestampField(definitions[fields[i].type].fields[j])
      /\ NestedStamped(definitions[fields[i].type].fields, definitions)

\* C36: only the top-level definition of a Data record must contain a
\* timestamp field: when it does, the message is decoded, whether or not
\* the definitions of its complex fields and complex array elements have a
\* field named timestamp.
C36_NestedNeedsNoTimestamp == TopLevelStamped => probe.value.ok

\* the message is decoded when the nested definitions have a timestamp too
NestedStampedDecoded ==
  (TopLevelStamped
     /\ NestedStamped(probe.definitions[NameT].fields, probe.definitions))
    => probe.value.ok

\* and it is not when a complex field that is no padding refers to a
\* definition without one
NestedPlainRejected ==
  (TopLevelStamped
     /\ \E i \in 1..Len(probe.definitions[NameT].fields) :
          /\ probe.definitions[NameT].fields[i].type = NameK
          /\ ~IsPadding(probe.definitions[NameT].fields[i].name))
    => ~probe.value.ok

\* C37: a ChunkedReader operation that fails leaves position() and
\* remaining() exactly as they were before the call.
C37_FailedCallLeavesPosition ==
  (ReaderCalled /\ ~probe.ok) =>
    /\ position(reader) = probe.pos
    /\ remaining(reader) = Size - probe.pos

\* the same as long as no readString call was given a negative length
FailedCallLeavesPositionUnlessNegative ==
  ~probe.negative => C37_FailedCallLeavesPosition

(***************************************************************************)
(* C38: size resolution and decoding terminate for every definitions       *)
(* table: fieldSize, messageSize and parseMessage return a result or an    *)
(* error after finitely many steps, also when a definition holds, directly *)
(* or through other definitions, a complex field of its own type.  The     *)
(* functions are deterministic and Field.size is set only when messageSize *)
(* has returned, so a call that runs inside an identical call of itself    *)
(* (the same function on the same definition, and for parseMessage at the  *)
(* same offset) repeats what its caller did and never returns by itself:   *)
(* a recursion that terminates never holds the same call twice.            *)
(***************************************************************************)
SameCall(a, b) ==
  /\ a.fn = b.fn
  /\ a.type = b.type
  /\ a.fn = "parseMessage" => a.off = b.off

Reentered ==
  \E a, b \in DOMAIN probe.stack : a < b /\ SameCall(probe.stack[a], probe.stack[b])

C38_ResolutionTerminates == probe.op = "resolve" => ~Reentered

\* the types the complex fields of a definition name
RefsOf(type, definitions) ==
  IF type \notin DOMAIN definitions THEN {}
  ELSE { definitions[type].fields[i].type :
           i \in { j \in DOMAIN definitions[type].fields :
                     definitions[type].fields[j].isComplex } }

RECURSIVE ReachedFrom(_, _, _)
ReachedFrom(types, definitions, k) ==
  IF k = 0 THEN types
  ELSE ReachedFrom(types \cup UNION { RefsOf(type, definitions) : type \in types },
                   definitions, k - 1)

\* the definition refers to its own type, directly or through other definitions
Cyclic(type, definitions) ==
  type \in ReachedFrom(RefsOf(type, definitions), definitions,
                       Cardinality(DOMAIN definitions))

\* only a cyclic definition is entered again, and only it exhausts the call stack
ReentersOnlyOnCycle ==
  probe.op = "resolve" =>
    /\ \A a, b \in DOMAIN probe.stack :
         (a < b /\ SameCall(probe.stack[a], probe.stack[b]))
           => Cyclic(probe.stack[a].type, probe.definitions)
    /\ (probe.result.st = "thrown" /\ probe.result.error = "StackOverflow")
         => Cyclic(NameT, probe.definitions)

\* a cyclic definition t ends no call but by an error
CyclicNeverReturns ==
  (probe.op = "resolve" /\ probe.result.st = "returned")
    => ~Cyclic(NameT, probe.definitions)

\* a call of messageSize that returns, returns what messageSize of the model does
ResolvedAsMessageSize ==
  (probe.op = "resolve" /\ probe.called = "messageSize" /\ probe.result.st # "none")
    => IF probe.result.st = "returned"
       THEN probe.result.size = messageSize(probe.definitions[NameT], probe.definitions)
       ELSE messageSize(probe.definitions[NameT], probe.definitions) < 0

\* a call of parseMessage returns exactly when parseMessage of the model has a value
ResolvedAsParseMessage ==
  (probe.op = "resolve" /\ probe.called = "parseMessage" /\ probe.result.st # "none")
    => (probe.result.st = "returned")
         = parseMessage(probe.definitions[NameT], probe.definitions, probe.view, 0).ok

====
